---- MODULE Spec2Model ----
(***************************************************************************)
(* Content-generation pipeline of still-geo-saas: schema negotiation        *)
(* (backend/worker.js mergeSchemaConfig .. processSchemaOutput), the       *)
(* generation job processor (backend/worker.js worker), the transaction    *)
(* helper (backend/db.js withTransaction) and the enqueue / poll routes    *)
(* (backend/routes/content.js).                                            *)
(*                                                                         *)
(* JavaScript arrays of type names are modelled by their element sets:     *)
(* the modelled code only tests them for membership and emptiness, filters *)
(* them and unions them.                                                   *)
(***************************************************************************)
EXTENDS Integers, Sequences, FiniteSets, TLC

VARIABLES
  \* ---- schema negotiation (worker.js 187-233, 389-512, 1345, 1511-1549)
  spc,                 \* position of the schema computation
  ruleCfg,             \* rule?.schema_config
  jobCfg,              \* job.data.schemaConfig
  overrideCfg,         \* job.data.schemaOverrides
  mergedSchemaConfig,  \* result of mergeSchemaConfig
  rawSchema,           \* the schema part of the parsed model output
  schemaOut,           \* result of processSchemaOutput
  schemaTypeArray,     \* schema_types column value (worker.js 1549)
  \* ---- POST /api/content/generate (routes/content.js 10-51)
  apiPc,               \* position of the handler
  apiStatus,           \* HTTP status answered (0: none yet)
  \* ---- the job as the queue holds it (queue.js 39-51, content.js 79-87)
  jobState,            \* job.getState()
  attemptsMade,        \* job.attemptsMade
  stalledCount,        \* times the job was re-delivered after a stall
  deliveries,          \* times a worker took the job
  progress,            \* job.progress
  progressLog,         \* progress records written since the attempt began
  returnvalue,         \* job.returnvalue
  failedReason,        \* the error the processor threw to the queue
  \* ---- configuration (worker.js 1413)
  aiConfigured,
  \* ---- one run of the processor (worker.js 1325-1601)
  wpc,                 \* position of the processor
  fallbackReason,      \* "" is null
  aiOutcome,           \* what the model call and the parsing came to
  reply,               \* aiResponse.data
  generatedContent,    \* the parsed reply: "null", "incomplete", "valid"
  err,                 \* the error caught at worker.js 1584
  failedWrite,         \* outcome of the 'failed' progress write (1585-1592)
  \* ---- withTransaction (db.js 17-30)
  txState,             \* "idle", "running", "returned", "threw"
  txClient,            \* "none", "held", "released"
  txReleases,          \* client.release() calls of this transaction
  txCallback,          \* "pending", "resolved", "threw"
  txCommitIssued,
  txRollbackIssued,
  txCaught,            \* the error caught at db.js 24
  txThrown,            \* the error withTransaction threw to its caller
  txPending,           \* a row inserted inside the open transaction
  txRowsBefore,        \* rows visible when withTransaction was called
  \* ---- generated_content as other connections see it
  rows,
  \* ---- knowledge retrieval, step by step (worker.js 873-1210)
  kbScope,             \* "none", "document" (knowledgeBaseId), "set" (knowledgeSetId)
  kbFound,             \* the document / the set exists and is the user's
  kbDocs,              \* the document, or the documents of the set
  embeddingConfigured, \* worker.js 21-23
  kpc,                 \* position inside fetchKnowledgeBaseContent
  chunkStats,          \* getDocumentChunkStats / getAggregatedChunkStats
  embeddingOutcome,    \* what the call to the embedding service came to
  queryEmbedding,      \* "not_called", "none" (null), "vector"
  snippetRows,         \* the chunk rows selected
  retrievalMode,
  sections,            \* lengths of the sections of the raw tier of a set
  docIdx,              \* documents of the set read so far
  readErrors,          \* raw reads that threw
  combinedLength,      \* combinedContent.length before the cut
  kbResult,            \* what fetchKnowledgeBaseContent returned
  \* ---- the request body of POST /api/content/generate (content.js 11-23)
  req,
  \* ---- generation_rules as fetchRule and the INSERT see it
  ruleLookup,          \* the rule named by ruleId: "found", "other_user", "missing"
  \* ---- image resolution, step by step (worker.js 1212-1308, 1388-1411)
  jobImages,           \* imageIds, imageCollectionId, imageTags, imageCount
  ruleMedia,           \* rule?.media_settings
  imagesTable,         \* the images table
  selectedImages,      \* the images resolveImages returned
  safeContent,         \* the structured content of worker.js 1495
  \* ---- PUT /api/rules/:id (routes/content.js 265-312)
  rulesTable,          \* generation_rules
  rulesBefore,         \* generation_rules when the request arrived
  rulePc,              \* position of the handler
  ruleParamId,         \* req.params.id
  ruleBody,            \* req.body
  ruleStatus,          \* HTTP status answered (0: none yet)
  \* ---- the keyword list and its cache (part_006 29-36, 648-727; simpleCache.js)
  kwDb,                \* version of the user's keywords in the database
  kwCache,             \* the page cached under the user's list key
  kwMutPc,             \* position of the mutating handler
  kwReturned,          \* mutations that have returned
  kwList,              \* the list requests of the user
  \* ---- GET /api/content/jobs/:id (routes/content.js 69-93) and queue.js
  queueKind,           \* "bullmq" or "memory" (queue.js 6, 77)
  jobOwner,            \* job.data.userId: "user", "other"; "nodata"; "nojob"
  pollCaller,          \* req.user.id
  pollPc,              \* position of the handler
  pollStatus,          \* HTTP status answered (0: none yet)
  pollBody             \* the body answered

schemaVars == <<spc, ruleCfg, jobCfg, overrideCfg, mergedSchemaConfig,
                rawSchema, schemaOut, schemaTypeArray>>

apiVars == <<apiPc, apiStatus>>

queueVars == <<jobState, attemptsMade, stalledCount, deliveries, progress,
               progressLog, returnvalue, failedReason>>

attemptVars_locals == <<fallbackReason, aiOutcome, reply, generatedContent, err,
                        failedWrite>>

attemptVars == <<wpc, attemptVars_locals>>

txVars == <<txState, txClient, txReleases, txCallback, txCommitIssued,
            txRollbackIssued, txCaught, txThrown, txPending, txRowsBefore>>

kbInputs == <<kbScope, kbFound, kbDocs, embeddingConfigured>>

kbLocals == <<kpc, chunkStats, embeddingOutcome, queryEmbedding, snippetRows, retrievalMode, sections,
              docIdx, readErrors, combinedLength, kbResult>>

imgInputs == <<jobImages, ruleMedia, imagesTable>>

imgLocals == <<selectedImages, safeContent>>

rulesVars == <<rulesTable, rulesBefore, rulePc, ruleParamId, ruleBody, ruleStatus>>

cacheVars == <<kwDb, kwCache, kwMutPc, kwReturned, kwList>>

pollVars == <<queueKind, jobOwner, pollCaller, pollPc, pollStatus, pollBody>>

\* the routes that are modelled apart from the generation job
routeVars == <<rulesVars, cacheVars, pollVars>>

\* the stages of the processor that are also modelled step by step, the
\* request body, the rule lookup and the other routes
stageVars == <<kbInputs, kbLocals, req, ruleLookup, imgInputs, imgLocals, routeVars>>

jobVars == <<apiVars, queueVars, aiConfigured, attemptVars, txVars, rows, stageVars>>

vars == <<schemaVars, jobVars>>

----------------------------------------------------------------------------
(* Value universes of the schema inputs                                    *)

\* type names a schema config can enable
Types == {"Product", "FAQ"}

\* values of a layer's `enabled` field: absent, null (any non-boolean), booleans
EnabledVals == {"absent", "null", "true", "false"}

\* a layer that is null / undefined / not an object (worker.js 189)
NoLayer ==
  [present |-> FALSE, enabled |-> "absent", enabledTypes |-> {},
   hasTemplates |-> FALSE, schemaTemplates |-> {}]

\* every schema config object over Types
Layers ==
  {NoLayer} \cup
  { [present |-> TRUE, enabled |-> e, enabledTypes |-> t,
     hasTemplates |-> (k # {}), schemaTemplates |-> k] :
      e \in EnabledVals, t \in SUBSET Types, k \in SUBSET Types }

\* the reduce seed `{}` (worker.js 212)
EmptyConfig ==
  [enabled |-> "absent", enabledTypes |-> {},
   hasTemplates |-> FALSE, schemaTemplates |-> {}]

IsBool(e) == e \in {"true", "false"}

----------------------------------------------------------------------------
(* mergeSchemaConfig, getEnabledSchemaTypes, isSchemaModuleEnabled         *)

\* a wrong merge in which the first boolean given is kept
mergeEnabledFirstWins(accEnabled, cfgEnabled) ==
  IF IsBool(accEnabled) THEN accEnabled
  ELSE IF IsBool(cfgEnabled) THEN cfgEnabled ELSE accEnabled

\* worker.js 193-195: a boolean `enabled` replaces the accumulated one
mergeEnabled(accEnabled, cfgEnabled) ==
  IF IsBool(cfgEnabled) THEN cfgEnabled ELSE accEnabled

\* worker.js 196-200: non-empty enabledTypes are added to the accumulated set
mergeEnabledTypes(accTypes, cfgTypes) ==
  IF cfgTypes # {} THEN accTypes \cup cfgTypes ELSE accTypes

\* worker.js 191-211: one step of the reduce
mergeStep(acc, cfg) ==
  [enabled        |-> mergeEnabled(acc.enabled, cfg.enabled),
   enabledTypes   |-> mergeEnabledTypes(acc.enabledTypes, cfg.enabledTypes),
   hasTemplates   |-> acc.hasTemplates \/ cfg.hasTemplates,
   schemaTemplates |-> IF cfg.hasTemplates
                       THEN acc.schemaTemplates \cup cfg.schemaTemplates
                       ELSE acc.schemaTemplates]

\* worker.js 187-213: filter out non-objects, fold the rest left to right
mergeSchemaConfig(rule, job, override) ==
  LET fold(acc, cfg) == IF cfg.present THEN mergeStep(acc, cfg) ELSE acc
  IN  fold(fold(fold(EmptyConfig, rule), job), override)

\* worker.js 215-226
getEnabledSchemaTypes(config) ==
  IF config.enabledTypes # {} THEN config.enabledTypes
  ELSE IF config.hasTemplates THEN config.schemaTemplates
  ELSE {}

\* a wrong check that ignores the `enabled` flag
isSchemaModuleEnabledIgnoringFlag(config) ==
  getEnabledSchemaTypes(config) # {}

\* worker.js 228-233
isSchemaModuleEnabled(config) ==
  IF config.enabled = "false" THEN FALSE
  ELSE getEnabledSchemaTypes(config) # {}

\* what getEnabledSchemaTypes yields for one layer as stored (null layer: [])
layerEnabledTypes(cfg) ==
  IF cfg.present THEN getEnabledSchemaTypes(cfg) ELSE {}

----------------------------------------------------------------------------
(* The schema part of the parsed model output, and processSchemaOutput     *)

\* type names the model can list in schema_payloads.types
ReplyTypes == {"Product", "FAQ", "Other"}

\* keys the model can use in the payload map
PayloadKeys == {"Product", "product", "Other"}

\* payload values: an object, null, a falsy non-null scalar (0, '', false);
\* "undefined" stands for a key that is not there
PayloadVals == {"obj", "null", "falsy"}

\* String.prototype.toLowerCase on the type names (worker.js 478)
toLowerCase(t) ==
  CASE t = "Product" -> "product"
    [] t = "FAQ"     -> "faq"
    [] t = "Other"   -> "other"
    [] OTHER         -> t

Truthy(v) == v = "obj"
Nullish(v) == v \in {"null", "undefined"}

\* kind: "missing"  no schema_payloads / schemaPayload / schema / schemas (falsy)
\*       "scalar"   a truthy value that is neither object nor array
\*       "array"    [{type, payload}, ...]; types = the type names of its items
\*       "object"   {types?, payloads?, ...}: hasTypes/types is its `types`
\*                  array, entries are the entries of its truthy `payloads`
\*                  (hasPayloads) or else its own other keys
UnsetRawSchema ==
  [kind |-> "unset", hasTypes |-> FALSE, types |-> {}, hasPayloads |-> FALSE,
   entries |-> [k \in PayloadKeys |-> "undefined"]]

RawSchemas ==
  { [UnsetRawSchema EXCEPT !.kind = "missing"],
    [UnsetRawSchema EXCEPT !.kind = "scalar"] }
  \cup { [UnsetRawSchema EXCEPT !.kind = "array", !.types = t] : t \in SUBSET ReplyTypes }
  \cup { [kind |-> "object", hasTypes |-> FALSE, types |-> {}, hasPayloads |-> p,
          entries |-> e] :
           p \in BOOLEAN, e \in [PayloadKeys -> PayloadVals \cup {"undefined"}] }
  \cup { [kind |-> "object", hasTypes |-> TRUE, types |-> t, hasPayloads |-> p,
          entries |-> e] :
           t \in SUBSET ReplyTypes, p \in BOOLEAN,
           e \in [PayloadKeys -> PayloadVals \cup {"undefined"}] }

\* worker.js 421-438: an array is reduced to {types, payloads}
payloadContainer(raw) ==
  IF raw.kind = "array"
  THEN [raw EXCEPT !.hasTypes = TRUE, !.hasPayloads = TRUE,
                   !.entries = [k \in PayloadKeys |->
                                  IF k \in raw.types THEN "obj" ELSE "undefined"]]
  ELSE raw

\* worker.js 440-445: null exactly when the container is not an object
hasCandidatePayloads(container) == container.kind \in {"array", "object"}

\* candidatePayloads[key]
candidateAt(container, key) ==
  IF container.kind = "array"
  THEN (IF key \in container.types THEN "obj" ELSE "undefined")
  ELSE IF key \in PayloadKeys THEN container.entries[key]
  ELSE IF key = "types" /\ ~container.hasPayloads /\ container.hasTypes THEN "obj"
  ELSE "undefined"

\* Object.keys(candidatePayloads)
candidateKeys(container) ==
  IF container.kind = "array" THEN container.types
  ELSE { k \in PayloadKeys : container.entries[k] # "undefined" }
       \cup (IF ~container.hasPayloads /\ container.hasTypes THEN {"types"} ELSE {})

\* a wrong filter that keeps every type name the model listed
filterEnabledTypesKeepAll(types, enabledTypes) == types

\* worker.js 452-454
filterEnabledTypes(types, enabledTypes) ==
  IF enabledTypes # {} /\ types # {} THEN types \cap enabledTypes ELSE types

\* worker.js 447-457: the type list of the reply, reconciled with the config
resolveReplyTypes(container, enabledTypes) ==
  LET listed   == IF container.hasTypes THEN container.types ELSE {}
      fromKeys == IF listed = {} /\ hasCandidatePayloads(container)
                  THEN candidateKeys(container) ELSE listed
      filtered == filterEnabledTypes(fromKeys, enabledTypes)
  IN  IF filtered = {} /\ enabledTypes # {} /\ hasCandidatePayloads(container)
      THEN { t \in enabledTypes : Truthy(candidateAt(container, t)) }
      ELSE filtered

\* worker.js 476-482: the types that get an entry in normalizedPayloads
normalizedPayloadKeys(container, types) ==
  { t \in types :
      LET direct == candidateAt(container, t)
          lower  == candidateAt(container, toLowerCase(t))
      IN  ~Nullish(IF ~Nullish(direct) THEN direct ELSE lower) }

UnsetSchemaOut ==
  [hasRecord |-> FALSE, types |-> {}, payloadKeys |-> {}, fallback |-> "none"]

\* a wrong processSchemaOutput that gives no record when the reply has no
\* schema part
processSchemaOutputDropsMissing(raw, schemaConfig) ==
  IF ~isSchemaModuleEnabled(schemaConfig) \/ raw.kind = "missing" THEN UnsetSchemaOut
  ELSE
    LET container == payloadContainer(raw)
        types     == resolveReplyTypes(container, getEnabledSchemaTypes(schemaConfig))
        keys      == normalizedPayloadKeys(container, types)
    IN  IF ~hasCandidatePayloads(container) \/ types = {}
        THEN [hasRecord |-> TRUE, types |-> {}, payloadKeys |-> {},
              fallback |-> "schema_payload_invalid"]
        ELSE IF keys = {}
        THEN [hasRecord |-> TRUE, types |-> {}, payloadKeys |-> {},
              fallback |-> "schema_payload_empty"]
        ELSE [hasRecord |-> TRUE, types |-> types, payloadKeys |-> keys,
              fallback |-> "none"]

\* worker.js 389-512
processSchemaOutput(raw, schemaConfig) ==
  IF ~isSchemaModuleEnabled(schemaConfig) THEN UnsetSchemaOut
  ELSE IF raw.kind = "missing"
  THEN [hasRecord |-> TRUE, types |-> {}, payloadKeys |-> {},
        fallback |-> "schema_payload_missing"]
  ELSE
    LET container == payloadContainer(raw)
        types     == resolveReplyTypes(container, getEnabledSchemaTypes(schemaConfig))
        keys      == normalizedPayloadKeys(container, types)
    IN  IF ~hasCandidatePayloads(container) \/ types = {}
        THEN [hasRecord |-> TRUE, types |-> {}, payloadKeys |-> {},
              fallback |-> "schema_payload_invalid"]
        ELSE IF keys = {}
        THEN [hasRecord |-> TRUE, types |-> {}, payloadKeys |-> {},
              fallback |-> "schema_payload_empty"]
        ELSE [hasRecord |-> TRUE, types |-> types, payloadKeys |-> keys,
              fallback |-> "none"]

NullTypeArray == [isNull |-> TRUE, types |-> {}]

\* worker.js 1549
toSchemaTypeArray(types) ==
  IF types # {} THEN [isNull |-> FALSE, types |-> types] ELSE NullTypeArray

----------------------------------------------------------------------------
(* The job, the processor run and the transaction before anything happened *)

NoProgress == [stage |-> "none", percent |-> 0, error |-> ""]

NoReturnValue == [present |-> FALSE, fallbackReason |-> "", row |-> 0]

NoReply == [text |-> "none", value |-> "null", schema |-> UnsetRawSchema]

\* the locals of the processor at the start of a run (worker.js 1414-1415)
FreshAttempt ==
  /\ fallbackReason = ""
  /\ aiOutcome = "not_called"
  /\ reply = NoReply
  /\ generatedContent = "null"
  /\ err = ""
  /\ failedWrite = "none"

\* no withTransaction call in progress
FreshTx ==
  /\ txState = "idle"
  /\ txClient = "none"
  /\ txReleases = 0
  /\ txCallback = "pending"
  /\ txCommitIssued = FALSE
  /\ txRollbackIssued = FALSE
  /\ txCaught = ""
  /\ txThrown = ""
  /\ txPending = FALSE
  /\ txRowsBefore = 0

\* the processor starts with fresh locals
ResetAttempt ==
  /\ fallbackReason' = ""
  /\ aiOutcome' = "not_called"
  /\ reply' = NoReply
  /\ generatedContent' = "null"
  /\ err' = ""
  /\ failedWrite' = "none"

\* no transaction is left from an earlier run
ResetTx ==
  /\ txState' = "idle"
  /\ txClient' = "none"
  /\ txReleases' = 0
  /\ txCallback' = "pending"
  /\ txCommitIssued' = FALSE
  /\ txRollbackIssued' = FALSE
  /\ txCaught' = ""
  /\ txThrown' = ""
  /\ txPending' = FALSE
  /\ txRowsBefore' = 0

NoChunkStats == [chunkCount |-> 0, embeddingCount |-> 0, totalLength |-> 0]

NoKbResult ==
  [returned |-> FALSE, retrievalMode |-> "none", contentLength |-> 0,
   truncated |-> FALSE, snippetCount |-> 0, originalLength |-> 0]

\* the locals of fetchKnowledgeBaseContent before it is called
FreshRetrieval ==
  /\ chunkStats = NoChunkStats
  /\ queryEmbedding = "not_called"
  /\ snippetRows = <<>>
  /\ retrievalMode = "none"
  /\ sections = <<>>
  /\ docIdx = 0
  /\ readErrors = 0
  /\ combinedLength = 0
  /\ kbResult = NoKbResult

\* no knowledge scope and no retrieval in progress
NoRetrieval ==
  /\ kbScope = "none" /\ kbFound = FALSE /\ kbDocs = <<>>
  /\ embeddingConfigured = FALSE
  /\ kpc = "idle"
  /\ embeddingOutcome = "not_called"
  /\ FreshRetrieval

\* a request body that passes validation and names no knowledge scope
PlainRequest ==
  [keyword |-> "text", ruleId |-> "id", knowledgeBaseId |-> "absent",
   knowledgeSetId |-> "absent"]

\* an image count that is not a number (undefined or null): worker.js 1389,
\* 1391 test typeof ... === 'number'
AbsentCount == -1

\* job.data without image fields
NoJobImages ==
  [imageIds |-> {}, imageCollectionId |-> 0, imageTags |-> {}, imageCount |-> AbsentCount]

\* rule?.media_settings of a missing rule, or of a rule without media settings
NoRuleMedia == [image_count |-> AbsentCount, tags |-> {}, collection_id |-> 0]

\* safeContent before worker.js 1495
NoSafeContent == [built |-> FALSE, source |-> "none", titleHasKeyword |-> FALSE,
                  placeholders |-> 0]

\* no image selection and no image resolution in progress
NoImages ==
  /\ jobImages = NoJobImages
  /\ ruleMedia = NoRuleMedia
  /\ imagesTable = {}
  /\ selectedImages = {}
  /\ safeContent = NoSafeContent

\* no PUT /api/rules/:id is being served
NoRuleRequest ==
  /\ rulesTable = <<>> /\ rulesBefore = <<>>
  /\ rulePc = "idle" /\ ruleParamId = 0 /\ ruleBody = <<>> /\ ruleStatus = 0

\* simpleCache.js 10-13: the key has no entry (the cached pages are numbered
\* from 0 by the version of the data they show)
NoCacheEntry == -1

\* no keyword request is being served and nothing is cached
NoKeywordRequests ==
  /\ kwDb = 0 /\ kwCache = NoCacheEntry /\ kwMutPc = "idle" /\ kwReturned = 0 /\ kwList = <<>>

\* the answer of GET /api/content/jobs/:id before it is given
NoPollBody == [message |-> "", state |-> "", stage |-> "", hasResult |-> FALSE]

\* no GET /api/content/jobs/:id is being served; the queue is the Redis queue
NoPoll ==
  /\ queueKind = "bullmq" /\ jobOwner = "user" /\ pollCaller = "user"
  /\ pollPc = "idle" /\ pollStatus = 0 /\ pollBody = NoPollBody

NoOtherRoutes == NoRuleRequest /\ NoKeywordRequests /\ NoPoll

\* nothing is queued and no processor runs
NothingQueued ==
  /\ jobState = "none" /\ attemptsMade = 0 /\ stalledCount = 0 /\ deliveries = 0
  /\ progress = NoProgress /\ progressLog = <<>>
  /\ returnvalue = NoReturnValue /\ failedReason = ""
  /\ wpc = "idle"
  /\ FreshAttempt
  /\ FreshTx
  /\ rows = <<>>
  /\ NoRetrieval
  /\ NoImages

\* no request has been made
NoRequest ==
  /\ apiPc = "request" /\ apiStatus = 0
  /\ req = PlainRequest
  /\ NothingQueued

NoJob == NoRequest /\ aiConfigured = FALSE /\ ruleLookup = "found"

----------------------------------------------------------------------------
(* Specification of the merge alone: three arbitrary layers, then the merge *)

InitMerge ==
  /\ spc = "layers"
  /\ ruleCfg \in Layers
  /\ jobCfg \in Layers
  /\ overrideCfg \in Layers
  /\ mergedSchemaConfig = EmptyConfig
  /\ rawSchema = UnsetRawSchema
  /\ schemaOut = UnsetSchemaOut
  /\ schemaTypeArray = NullTypeArray
  /\ NoJob
  /\ NoOtherRoutes

\* worker.js 1345
MergeConfigs ==
  /\ spc = "layers"
  /\ mergedSchemaConfig' = mergeSchemaConfig(ruleCfg, jobCfg, overrideCfg)
  /\ spc' = "merged"
  /\ UNCHANGED <<ruleCfg, jobCfg, overrideCfg, rawSchema, schemaOut, schemaTypeArray>>
  /\ UNCHANGED jobVars

NextMerge == MergeConfigs

SpecMerge == InitMerge /\ [][NextMerge]_vars

----------------------------------------------------------------------------
(* Claims about the merge                                                  *)

\* the `enabled` value of the last layer, in the order rule, job, override,
\* that gives a boolean; "absent" when none does
LastBooleanEnabled ==
  IF overrideCfg.present /\ IsBool(overrideCfg.enabled) THEN overrideCfg.enabled
  ELSE IF jobCfg.present /\ IsBool(jobCfg.enabled) THEN jobCfg.enabled
  ELSE IF ruleCfg.present /\ IsBool(ruleCfg.enabled) THEN ruleCfg.enabled
  ELSE "absent"

SomeLayerSetsEnabledFalse ==
  \E cfg \in {ruleCfg, jobCfg, overrideCfg} : cfg.present /\ cfg.enabled = "false"

\* C8 (as stated): if any of the three layers sets enabled:false, the merged
\* config reports the schema module as disabled.
C8_AnyLayerFalseDisables ==
  (spc = "merged" /\ SomeLayerSetsEnabledFalse)
    => ~isSchemaModuleEnabled(mergedSchemaConfig)

\* C8 (amended): if the last layer that gives a boolean `enabled` gives false,
\* the merged config reports the schema module as disabled, whatever types
\* and templates were accumulated.
C8_LastFalseDisables ==
  (spc = "merged" /\ LastBooleanEnabled = "false")
    => ~isSchemaModuleEnabled(mergedSchemaConfig)

\* C8 witness: an override disables a module for which earlier layers enabled
\* types and set enabled:true
C8_Witness ==
  /\ spc = "merged"
  /\ ruleCfg.present /\ ruleCfg.enabled = "true" /\ ruleCfg.enabledTypes = {"Product"}
  /\ overrideCfg.present /\ overrideCfg.enabled = "false"
  /\ getEnabledSchemaTypes(mergedSchemaConfig) # {}
  /\ ~isSchemaModuleEnabled(mergedSchemaConfig)

\* C9 (as stated): every type the job-level config enables on its own is in
\* the enabled-type set resolved from the merged config.
C9_JobTypesKeptByMerge ==
  spc = "merged"
    => layerEnabledTypes(jobCfg) \subseteq getEnabledSchemaTypes(mergedSchemaConfig)

\* C10: the merged `enabled` is the value of the last layer, in the order
\* rule, job, override, that gives a boolean, and is absent when none does.
C10_EnabledLastBooleanWins ==
  spc = "merged" => mergedSchemaConfig.enabled = LastBooleanEnabled

\* C10 witness: rule says false, job says true, override gives null
C10_Witness ==
  /\ spc = "merged"
  /\ ruleCfg.present /\ ruleCfg.enabled = "false"
  /\ jobCfg.present /\ jobCfg.enabled = "true"
  /\ overrideCfg.present /\ overrideCfg.enabled = "null"
  /\ mergedSchemaConfig.enabled = "true"

----------------------------------------------------------------------------
(* Specification of the schema stage of one job: merge (1345), the model's *)
(* reply, then processSchemaOutput and the schema_types column (1511-1549) *)

\* job-level configs tried together with every rule-level config
SchemaStageJobLayers ==
  {NoLayer,
   [present |-> TRUE, enabled |-> "true", enabledTypes |-> {"FAQ"},
    hasTemplates |-> FALSE, schemaTemplates |-> {}]}

InitSchema ==
  /\ spc = "layers"
  /\ ruleCfg \in Layers
  /\ jobCfg \in SchemaStageJobLayers
  /\ overrideCfg = NoLayer
  /\ mergedSchemaConfig = EmptyConfig
  /\ rawSchema = UnsetRawSchema
  /\ schemaOut = UnsetSchemaOut
  /\ schemaTypeArray = NullTypeArray
  /\ NoJob
  /\ NoOtherRoutes

\* the parsed model output (or the template content, which has no schema
\* part) reaches the schema stage: rawContent of worker.js 1512
ModelReplies ==
  /\ spc = "merged"
  /\ rawSchema' \in RawSchemas
  /\ spc' = "replied"
  /\ UNCHANGED <<ruleCfg, jobCfg, overrideCfg, mergedSchemaConfig, schemaOut, schemaTypeArray>>
  /\ UNCHANGED jobVars

\* worker.js 1511-1515 and 1549
SchemaStage ==
  /\ spc = "replied"
  /\ schemaOut' = processSchemaOutput(rawSchema, mergedSchemaConfig)
  /\ schemaTypeArray' = toSchemaTypeArray(schemaOut'.types)
  /\ spc' = "persistable"
  /\ UNCHANGED <<ruleCfg, jobCfg, overrideCfg, mergedSchemaConfig, rawSchema>>
  /\ UNCHANGED jobVars

NextSchema == MergeConfigs \/ ModelReplies \/ SchemaStage

SpecSchema == InitSchema /\ [][NextSchema]_vars

\* C7: the schema_types value of a row is null or every element of it is in
\* the enabled-type set resolved from the job's merged schema config.
C7_SchemaTypesWithinEnabled ==
  spc = "persistable"
    => \/ schemaTypeArray.isNull
       \/ schemaTypeArray.types \subseteq getEnabledSchemaTypes(mergedSchemaConfig)

\* C7 witness: the model lists an enabled and a not-enabled type with
\* payloads for both, and the row keeps only the enabled one
C7_Witness ==
  /\ spc = "persistable"
  /\ getEnabledSchemaTypes(mergedSchemaConfig) = {"Product"}
  /\ rawSchema.kind = "object" /\ rawSchema.types = {"Product", "Other"}
  /\ rawSchema.entries["Product"] = "obj" /\ rawSchema.entries["Other"] = "obj"
  /\ ~schemaTypeArray.isNull /\ schemaTypeArray.types = {"Product"}

----------------------------------------------------------------------------
(* The generation job: enqueue, the processor, the transaction, the queue  *)

\* config.queue.attempts (CONTENT_QUEUE_ATTEMPTS)
Attempts == 2

\* re-deliveries of a stalled job before the queue fails it
MaxStalls == 1

ProductRule ==
  [present |-> TRUE, enabled |-> "true", enabledTypes |-> {"Product"},
   hasTemplates |-> FALSE, schemaTemplates |-> {}]

\* <<rule?.schema_config, job.data.schemaConfig, job.data.schemaOverrides>>
JobSchemaInputs ==
  { <<NoLayer, NoLayer, NoLayer>>, <<ProductRule, NoLayer, NoLayer>> }

\* <<the rule named by ruleId, the model is configured>>: a rule of the
\* user with either model configuration, and no rule of the user (a rule of
\* another user, no rule at all) without a model configuration
JobRuleInputs ==
  { <<"found", TRUE>>, <<"found", FALSE>>, <<"other_user", FALSE>>, <<"missing", FALSE>> }

MissingSchema == [UnsetRawSchema EXCEPT !.kind = "missing"]

ProductSchema ==
  [kind |-> "object", hasTypes |-> TRUE, types |-> {"Product"}, hasPayloads |-> TRUE,
   entries |-> [k \in PayloadKeys |-> IF k = "Product" THEN "obj" ELSE "undefined"]]

\* a schema_payloads value that is a truthy scalar
InvalidSchema == [UnsetRawSchema EXCEPT !.kind = "scalar"]

\* {types: ['Product'], payloads: {Product: null}}
EmptySchema ==
  [kind |-> "object", hasTypes |-> TRUE, types |-> {"Product"}, hasPayloads |-> TRUE,
   entries |-> [k \in PayloadKeys |-> IF k = "Product" THEN "null" ELSE "undefined"]]

\* the schema parts a reply can carry
ReplySchemas == {MissingSchema, ProductSchema, InvalidSchema, EmptySchema}

\* aiResponse.data: text is where extractMessagePayload looks ("none": no
\* known shape holds a string, "blank": only white space, "garbage": text
\* that is not JSON, "json": text holding a JSON value); value is what the
\* JSON text denotes ("null": null, "incomplete": an object lacking a string
\* title, meta_description or body, "valid": an object with all three)
Replies ==
  { [NoReply EXCEPT !.text = t] : t \in {"none", "blank", "garbage"} }
  \cup { [text |-> "json", value |-> "null", schema |-> UnsetRawSchema] }
  \cup { [text |-> "json", value |-> v, schema |-> r] :
           v \in {"incomplete", "valid"}, r \in ReplySchemas }

\* worker.js 60-88: null ("none") unless a shape holds non-blank text
extractMessagePayload(data) ==
  IF data.text \in {"none", "blank"} THEN "none" ELSE data.text

\* worker.js 90-121: null for a non-string, else the (unfenced) candidate text
normalizeJsonContent(message) ==
  IF message = "none" THEN "none" ELSE message

\* worker.js 1467-1484: the parse try/catch; threw: the catch at 1477 ran
parseAiReply(data) ==
  LET sanitized == normalizeJsonContent(extractMessagePayload(data))
  IN  IF sanitized = "none" THEN [threw |-> FALSE, content |-> "null"]
      ELSE IF sanitized = "garbage" THEN [threw |-> TRUE, content |-> "null"]
      ELSE [threw |-> FALSE, content |-> data.value]

\* worker.js 1310-1321: where title / meta_description / body come from
ensureStructuredContent(content) ==
  IF content = "valid" THEN "model" ELSE "template"

\* a wrong processor that hands the structured content (worker.js 1495)
\* alone to processSchemaOutput
rawContentSchemaOfSafeContent(content, data) ==
  IF content = "valid" THEN data.schema ELSE MissingSchema

\* worker.js 1512: generatedContent || safeContent, its schema part
rawContentSchema(content, data) ==
  IF content \in {"incomplete", "valid"} THEN data.schema ELSE MissingSchema

ProgressRecord(stage, percent, error) ==
  [stage |-> stage, percent |-> percent, error |-> error]

\* job.updateProgress resolved
WriteProgress(stage, percent, error) ==
  /\ progress' = ProgressRecord(stage, percent, error)
  /\ progressLog' = Append(progressLog, ProgressRecord(stage, percent, error))

\* worker.js 1541, 1546
SchemaProcessedPercent(fr) == IF fr # "" THEN 82 ELSE 78
PersistingPercent(fr) == IF fr # "" THEN 85 ELSE 80

Init ==
  /\ spc = "job"
  /\ \E input \in JobSchemaInputs, found \in JobRuleInputs :
       /\ found[1] # "found" => input[1] = NoLayer
       /\ ruleCfg = input[1]
       /\ jobCfg = input[2]
       /\ overrideCfg = input[3]
       /\ ruleLookup = found[1]
       /\ aiConfigured = found[2]
  /\ mergedSchemaConfig = EmptyConfig
  /\ rawSchema = UnsetRawSchema
  /\ schemaOut = UnsetSchemaOut
  /\ schemaTypeArray = NullTypeArray
  /\ NoRequest
  /\ NoOtherRoutes

schemaInputs == <<spc, ruleCfg, jobCfg, overrideCfg>>
schemaLocals == <<mergedSchemaConfig, rawSchema, schemaOut, schemaTypeArray>>

(* ---- POST /api/content/generate ---- *)

\* content.js 31-44: contentQueue.add resolved
ApiAddJob ==
  /\ UNCHANGED stageVars
  /\ apiPc = "request"
  /\ jobState' = "waiting"
  /\ apiPc' = "added"
  /\ UNCHANGED <<apiStatus, attemptsMade, stalledCount, deliveries, progress,
                 progressLog, returnvalue, failedReason>>
  /\ UNCHANGED <<schemaVars, aiConfigured, attemptVars, txVars, rows>>

\* content.js 48-50: contentQueue.add threw
ApiAddFails ==
  /\ UNCHANGED stageVars
  /\ apiPc = "request"
  /\ apiPc' = "responded"
  /\ apiStatus' = 500
  /\ UNCHANGED <<schemaVars, queueVars, aiConfigured, attemptVars, txVars, rows>>

\* content.js 45-47
ApiWriteQueued ==
  /\ UNCHANGED stageVars
  /\ apiPc = "added"
  /\ WriteProgress("queued", 10, "")
  /\ apiPc' = "responded"
  /\ apiStatus' = 202
  /\ UNCHANGED <<jobState, attemptsMade, stalledCount, deliveries, returnvalue, failedReason>>
  /\ UNCHANGED <<schemaVars, aiConfigured, attemptVars, txVars, rows>>

\* content.js 45, 48-50: job.updateProgress threw
ApiWriteQueuedFails ==
  /\ UNCHANGED stageVars
  /\ apiPc = "added"
  /\ apiPc' = "responded"
  /\ apiStatus' = 500
  /\ UNCHANGED <<schemaVars, queueVars, aiConfigured, attemptVars, txVars, rows>>

(* ---- the queue hands the job to the processor ---- *)

\* worker.js 1325-1341
TakeJob ==
  /\ UNCHANGED stageVars
  /\ jobState = "waiting"
  /\ wpc = "idle"
  /\ jobState' = "active"
  /\ deliveries' = deliveries + 1
  /\ progressLog' = IF deliveries = 0 THEN progressLog ELSE <<>>
  /\ wpc' = "write_initializing"
  /\ UNCHANGED <<attemptVars_locals, txVars>>
  /\ mergedSchemaConfig' = EmptyConfig
  /\ rawSchema' = UnsetRawSchema
  /\ schemaOut' = UnsetSchemaOut
  /\ schemaTypeArray' = NullTypeArray
  /\ UNCHANGED <<schemaInputs, apiVars, attemptsMade, stalledCount, progress,
                 returnvalue, failedReason, aiConfigured, rows>>

(* ---- progress writes of the main try block ---- *)

\* an await of the processor resolved and only the position changes
Goto(next) ==
  /\ wpc' = next
  /\ UNCHANGED <<fallbackReason, aiOutcome, reply, generatedContent, err, failedWrite>>

StepFrame ==
  UNCHANGED <<apiVars, jobState, attemptsMade, stalledCount, deliveries,
              returnvalue, failedReason, aiConfigured, txVars, rows, stageVars>>

\* worker.js 1343
WriteInitializing ==
  /\ wpc = "write_initializing"
  /\ WriteProgress("initializing", 5, "")
  /\ Goto("fetch_rule")
  /\ StepFrame /\ UNCHANGED schemaVars

\* worker.js 1344-1345: fetchRule resolved, then mergeSchemaConfig
FetchRule ==
  /\ wpc = "fetch_rule"
  /\ mergedSchemaConfig' = mergeSchemaConfig(ruleCfg, jobCfg, overrideCfg)
  /\ Goto("write_loading_kb")
  /\ StepFrame
  /\ UNCHANGED <<schemaInputs, rawSchema, schemaOut, schemaTypeArray, progress, progressLog>>

\* worker.js 1346
WriteLoadingKnowledgeBase ==
  /\ wpc = "write_loading_kb"
  /\ WriteProgress("loading_knowledge_base", 15, "")
  /\ Goto("fetch_kb")
  /\ StepFrame /\ UNCHANGED schemaVars

\* worker.js 1354-1385: fetchKnowledgeBaseContent resolved
FetchKnowledge ==
  /\ wpc = "fetch_kb"
  /\ Goto("write_loading_images")
  /\ StepFrame /\ UNCHANGED <<schemaVars, progress, progressLog>>

\* worker.js 1386
WriteLoadingImages ==
  /\ wpc = "write_loading_images"
  /\ WriteProgress("loading_images", 30, "")
  /\ Goto("resolve_images")
  /\ StepFrame /\ UNCHANGED schemaVars

\* worker.js 1495-1544: what runs between the end of the AI stage and the
\* next await: ensureStructuredContent, processSchemaOutput, and the choice
\* of the next progress write
\* (aiResponse is scoped to the try block of 1434 and is gone after it)
AfterAiStage(fr, content, outcome) ==
  /\ fallbackReason' = fr
  /\ generatedContent' = content
  /\ aiOutcome' = outcome
  /\ rawSchema' = rawContentSchema(content, reply)
  /\ reply' = NoReply
  /\ schemaOut' = processSchemaOutput(rawSchema', mergedSchemaConfig)
  /\ wpc' = IF fr # "" THEN "write_fallback"
            ELSE IF schemaOut'.hasRecord THEN "write_schema_processed"
            ELSE "write_persisting"
  /\ UNCHANGED <<schemaInputs, mergedSchemaConfig, schemaTypeArray, err, failedWrite>>

\* worker.js 1405-1423: resolveImages resolved; without a model configuration
\* the processor goes straight to the template content
ResolveImages ==
  /\ wpc = "resolve_images"
  /\ IF aiConfigured
     THEN /\ Goto("write_building_prompt")
          /\ UNCHANGED schemaVars
     ELSE AfterAiStage("AI service is not configured.", "null", "not_called")
  /\ StepFrame /\ UNCHANGED <<progress, progressLog>>

\* worker.js 1344, 1363, 1405: a query of fetchRule, of the knowledge
\* retrieval or of resolveImages rejected
QueryFails ==
  /\ wpc \in {"fetch_rule", "fetch_kb", "resolve_images"}
  /\ wpc' = "catch"
  /\ err' = "query failed"
  /\ UNCHANGED <<fallbackReason, aiOutcome, reply, generatedContent, failedWrite>>
  /\ StepFrame /\ UNCHANGED <<schemaVars, progress, progressLog>>

\* worker.js 1424
WriteBuildingPrompt ==
  /\ wpc = "write_building_prompt"
  /\ WriteProgress("building_prompt", 45, "")
  /\ Goto("ai_call")
  /\ StepFrame /\ UNCHANGED schemaVars

(* ---- the model call and the parsing (worker.js 1434-1492) ---- *)

\* worker.js 1464: aiClient.post resolved
AiCall ==
  /\ wpc = "ai_call"
  /\ reply' \in Replies
  /\ wpc' = "write_awaiting_ai"
  /\ UNCHANGED <<fallbackReason, aiOutcome, generatedContent, err, failedWrite>>
  /\ StepFrame /\ UNCHANGED <<schemaVars, progress, progressLog>>

\* worker.js 1464, 1485-1492: aiClient.post rejected (timeout, 4xx, 5xx)
AiCallThrows ==
  /\ wpc = "ai_call"
  /\ AfterAiStage("AI request failed.", "null", "threw")
  /\ StepFrame /\ UNCHANGED <<progress, progressLog>>

\* worker.js 1465-1484: the progress write resolved, then the reply is parsed
WriteAwaitingAi ==
  /\ wpc = "write_awaiting_ai"
  /\ WriteProgress("awaiting_ai_response", 65, "")
  /\ LET parsed == parseAiReply(reply)
     IN  IF parsed.threw
         THEN AfterAiStage("AI response parsing failed.", "null", "unparseable")
         ELSE AfterAiStage("", parsed.content,
                           IF extractMessagePayload(reply) = "none"
                           THEN "unextractable" ELSE "parsed")
  /\ StepFrame

\* worker.js 1465, 1485-1492: the progress write rejected inside the AI try
WriteAwaitingAiFails ==
  /\ wpc = "write_awaiting_ai"
  /\ AfterAiStage("progress write failed", "null", "threw")
  /\ StepFrame /\ UNCHANGED <<progress, progressLog>>

(* ---- fallback, schema_processed, persisting (worker.js 1530-1550) ---- *)

\* worker.js 1535
WriteFallback ==
  /\ wpc = "write_fallback"
  /\ WriteProgress("fallback", 75, "")
  /\ Goto(IF schemaOut.hasRecord THEN "write_schema_processed" ELSE "write_persisting")
  /\ StepFrame /\ UNCHANGED schemaVars

\* worker.js 1538-1544
WriteSchemaProcessed ==
  /\ wpc = "write_schema_processed"
  /\ WriteProgress("schema_processed", SchemaProcessedPercent(fallbackReason), "")
  /\ Goto("write_persisting")
  /\ StepFrame /\ UNCHANGED schemaVars

\* worker.js 1546-1551: the write, then the column values, then withTransaction
\* is called
WritePersisting ==
  /\ UNCHANGED stageVars
  /\ wpc = "write_persisting"
  /\ WriteProgress("persisting", PersistingPercent(fallbackReason), "")
  /\ schemaTypeArray' = toSchemaTypeArray(schemaOut.types)
  /\ Goto("tx_connect")
  /\ txState' = "running"
  /\ txRowsBefore' = Len(rows)
  /\ UNCHANGED <<txClient, txReleases, txCallback, txCommitIssued, txRollbackIssued,
                 txCaught, txThrown, txPending>>
  /\ UNCHANGED <<apiVars, jobState, attemptsMade, stalledCount, deliveries,
                 returnvalue, failedReason, aiConfigured, rows>>
  /\ UNCHANGED <<schemaInputs, mergedSchemaConfig, rawSchema, schemaOut>>

\* a progress write of the main try block rejected (worker.js 1584)
ProgressWriteFails ==
  /\ wpc \in {"write_initializing", "write_loading_kb", "write_loading_images",
              "write_building_prompt", "write_fallback", "write_schema_processed",
              "write_persisting", "write_completed"}
  /\ wpc' = "catch"
  /\ err' = "progress write failed"
  /\ UNCHANGED <<fallbackReason, aiOutcome, reply, generatedContent, failedWrite>>
  /\ StepFrame /\ UNCHANGED <<schemaVars, progress, progressLog>>

(* ---- db.withTransaction (db.js 17-30) with the callback of worker.js   ---- *)
(* ---- 1551-1569                                                        ---- *)

TxFrame ==
  /\ UNCHANGED <<schemaVars, apiVars, queueVars, aiConfigured, txRowsBefore, stageVars>>
  /\ UNCHANGED <<fallbackReason, aiOutcome, reply, generatedContent, failedWrite>>

\* worker.js 1547-1548: the ids of the selected images, or else the ids the
\* job asked for
imageIdList(selected, imageIds) ==
  IF selected # {} THEN { image.id : image \in selected } ELSE imageIds

\* the row the callback inserts (worker.js 1557-1566)
NewRow ==
  [content |-> ensureStructuredContent(generatedContent),
   schemaTypes |-> schemaTypeArray,
   image_ids |-> imageIdList(selectedImages, jobImages.imageIds),
   schema_payload |-> schemaOut]

\* db.js 18: pool.connect resolved
TxConnect ==
  /\ wpc = "tx_connect"
  /\ txClient' = "held"
  /\ wpc' = "tx_begin"
  /\ UNCHANGED <<txState, txReleases, txCallback, txCommitIssued, txRollbackIssued,
                 txCaught, txThrown, txPending, err, rows>>
  /\ TxFrame

\* db.js 18: pool.connect rejected, outside the try: nothing to roll back
TxConnectFails ==
  /\ wpc = "tx_connect"
  /\ txState' = "threw"
  /\ txThrown' = "connect failed"
  /\ wpc' = "catch"
  /\ err' = "connect failed"
  /\ UNCHANGED <<txClient, txReleases, txCallback, txCommitIssued, txRollbackIssued,
                 txCaught, txPending, rows>>
  /\ TxFrame

\* db.js 20: BEGIN resolved, the callback is called
TxBegin ==
  /\ wpc = "tx_begin"
  /\ wpc' = "tx_insert"
  /\ UNCHANGED <<txState, txClient, txReleases, txCallback, txCommitIssued,
                 txRollbackIssued, txCaught, txThrown, txPending, err, rows>>
  /\ TxFrame

\* db.js 24: a statement rejected and the catch block is entered
TxCatch(error) ==
  /\ txCaught' = error
  /\ wpc' = "tx_rollback"

\* db.js 20, 24: BEGIN rejected
TxBeginFails ==
  /\ wpc = "tx_begin"
  /\ TxCatch("BEGIN failed")
  /\ UNCHANGED <<txState, txClient, txReleases, txCallback, txCommitIssued,
                 txRollbackIssued, txThrown, txPending, err, rows>>
  /\ TxFrame

\* part_003 209: rule_id REFERENCES generation_rules(id); the INSERT gives
\* rule_id = ruleId (worker.js 1559)
foreignKeySatisfied(lookup) == lookup # "missing"

\* db.js 21, worker.js 1552-1568: the INSERT resolved, the callback returns
TxInsert ==
  /\ wpc = "tx_insert"
  /\ foreignKeySatisfied(ruleLookup)
  /\ txPending' = TRUE
  /\ txCallback' = "resolved"
  /\ wpc' = "tx_commit"
  /\ UNCHANGED <<txState, txClient, txReleases, txCommitIssued, txRollbackIssued,
                 txCaught, txThrown, err, rows>>
  /\ TxFrame

\* db.js 21, 24: the INSERT rejected, the callback throws
TxInsertFails ==
  /\ wpc = "tx_insert"
  /\ txCallback' = "threw"
  /\ TxCatch("INSERT failed")
  /\ UNCHANGED <<txState, txClient, txReleases, txCommitIssued, txRollbackIssued,
                 txThrown, txPending, err, rows>>
  /\ TxFrame

\* db.js 21, 24: the INSERT rejected because no rule has the id ruleId
TxInsertViolatesForeignKey ==
  /\ wpc = "tx_insert"
  /\ ~foreignKeySatisfied(ruleLookup)
  /\ txCallback' = "threw"
  /\ TxCatch("foreign key violation")
  /\ UNCHANGED <<txState, txClient, txReleases, txCommitIssued, txRollbackIssued,
                 txThrown, txPending, err, rows>>
  /\ TxFrame

\* db.js 22-23: COMMIT resolved: the row becomes visible
TxCommit ==
  /\ wpc = "tx_commit"
  /\ txCommitIssued' = TRUE
  /\ txPending' = FALSE
  /\ rows' = Append(rows, NewRow)
  /\ wpc' = "tx_release"
  /\ UNCHANGED <<txState, txClient, txReleases, txCallback, txRollbackIssued,
                 txCaught, txThrown, err>>
  /\ TxFrame

\* a wrong transaction helper that swallows the rejection of COMMIT
TxCommitFailsSwallowed ==
  /\ wpc = "tx_commit"
  /\ txCommitIssued' = TRUE
  /\ txPending' = FALSE
  /\ wpc' = "tx_release"
  /\ UNCHANGED <<txState, txClient, txReleases, txCallback, txRollbackIssued,
                 txCaught, txThrown, err, rows>>
  /\ TxFrame

\* db.js 22, 24: COMMIT rejected (nothing was committed)
TxCommitFails ==
  /\ wpc = "tx_commit"
  /\ txCommitIssued' = TRUE
  /\ TxCatch("COMMIT failed")
  /\ UNCHANGED <<txState, txClient, txReleases, txCallback, txRollbackIssued,
                 txThrown, txPending, err, rows>>
  /\ TxFrame

\* db.js 25-26: `await client.query('ROLLBACK')` is not guarded, so its
\* rejection leaves the catch block and `throw err` is never reached
errorAfterRollbackFailure(caught, rollbackError) == rollbackError

\* db.js 25-26: ROLLBACK resolved, the caught error is rethrown
TxRollback ==
  /\ wpc = "tx_rollback"
  /\ txRollbackIssued' = TRUE
  /\ txPending' = FALSE
  /\ txThrown' = txCaught
  /\ wpc' = "tx_release"
  /\ UNCHANGED <<txState, txClient, txReleases, txCallback, txCommitIssued,
                 txCaught, err, rows>>
  /\ TxFrame

\* db.js 25: ROLLBACK rejected (the connection is gone, and with it the
\* uncommitted work)
TxRollbackFails ==
  /\ wpc = "tx_rollback"
  /\ txRollbackIssued' = TRUE
  /\ txPending' = FALSE
  /\ txThrown' = errorAfterRollbackFailure(txCaught, "ROLLBACK failed")
  /\ wpc' = "tx_release"
  /\ UNCHANGED <<txState, txClient, txReleases, txCallback, txCommitIssued,
                 txCaught, err, rows>>
  /\ TxFrame

\* db.js 27-29: finally; then the caller sees the result or the error
TxRelease ==
  /\ wpc = "tx_release"
  /\ txClient' = "released"
  /\ txReleases' = txReleases + 1
  /\ IF txThrown = ""
     THEN /\ txState' = "returned"
          /\ wpc' = "write_completed"
          /\ err' = err
     ELSE /\ txState' = "threw"
          /\ wpc' = "catch"
          /\ err' = txThrown
  /\ UNCHANGED <<txCallback, txCommitIssued, txRollbackIssued, txCaught, txThrown,
                 txPending, rows>>
  /\ TxFrame

(* ---- completion (worker.js 1571-1583) ---- *)

\* worker.js 1571
WriteCompleted ==
  /\ wpc = "write_completed"
  /\ WriteProgress("completed", 100, "")
  /\ Goto("return")
  /\ StepFrame /\ UNCHANGED schemaVars

\* worker.js 1573-1583: the processor returns and the queue completes the job
Return ==
  /\ UNCHANGED stageVars
  /\ wpc = "return"
  /\ jobState' = "completed"
  /\ returnvalue' = [present |-> TRUE, fallbackReason |-> fallbackReason, row |-> Len(rows)]
  /\ wpc' = "idle"
  /\ ResetAttempt
  /\ ResetTx
  /\ UNCHANGED <<schemaVars, apiVars, attemptsMade, stalledCount, deliveries, progress,
                 progressLog, failedReason, aiConfigured, rows>>

(* ---- the catch block (worker.js 1584-1600) ---- *)

\* the error thrown to the queue if the catch block let the rejection of
\* the 'failed' progress write escape
errorAfterFailedProgressEscapes(caught, progressError) == progressError

\* worker.js 1585-1599: the rejection of the 'failed' write is swallowed and
\* the caught error is thrown
errorAfterFailedProgress(caught, progressError) == caught

\* worker.js 1586
WriteFailed ==
  /\ wpc = "catch"
  /\ WriteProgress("failed", 100, err)
  /\ failedWrite' = "ok"
  /\ wpc' = "rethrow"
  /\ UNCHANGED <<fallbackReason, aiOutcome, reply, generatedContent, err>>
  /\ StepFrame /\ UNCHANGED schemaVars

\* worker.js 1586-1592: the 'failed' write rejected
WriteFailedFails ==
  /\ wpc = "catch"
  /\ failedWrite' = "threw"
  /\ err' = errorAfterFailedProgress(err, "progress write failed")
  /\ wpc' = "rethrow"
  /\ UNCHANGED <<fallbackReason, aiOutcome, reply, generatedContent>>
  /\ StepFrame /\ UNCHANGED <<schemaVars, progress, progressLog>>

\* queue.js 41-46: retried until config.queue.attempts attempts were made
stateAfterFailure(made) == IF made < Attempts THEN "waiting" ELSE "failed"

\* worker.js 1599: throw err; the queue counts the attempt
Rethrow ==
  /\ UNCHANGED stageVars
  /\ wpc = "rethrow"
  /\ attemptsMade' = attemptsMade + 1
  /\ failedReason' = err
  /\ jobState' = stateAfterFailure(attemptsMade + 1)
  /\ wpc' = "idle"
  /\ ResetAttempt
  /\ ResetTx
  /\ UNCHANGED <<schemaVars, apiVars, stalledCount, deliveries, progress, progressLog,
                 returnvalue, aiConfigured, rows>>

(* ---- a stalled job (worker.js 1602-1606, 1616-1618; queue.js 56-58) ---- *)

\* the worker process dies while it holds the job: its locals and its
\* database connection are gone, the job stays active until its lock expires
WorkerCrash ==
  /\ UNCHANGED stageVars
  /\ jobState = "active"
  /\ wpc # "idle"
  /\ wpc' = "idle"
  /\ ResetAttempt
  /\ ResetTx
  /\ UNCHANGED <<schemaVars, apiVars, queueVars, aiConfigured, rows>>

\* the queue puts the stalled job back
StalledJobRedelivered ==
  /\ UNCHANGED stageVars
  /\ jobState = "active"
  /\ wpc = "idle"
  /\ stalledCount < MaxStalls
  /\ stalledCount' = stalledCount + 1
  /\ jobState' = "waiting"
  /\ UNCHANGED <<schemaVars, apiVars, attemptsMade, deliveries, progress, progressLog,
                 returnvalue, failedReason, aiConfigured, attemptVars, txVars, rows>>

\* the queue fails a job that stalled too often
StalledJobFails ==
  /\ UNCHANGED stageVars
  /\ jobState = "active"
  /\ wpc = "idle"
  /\ stalledCount >= MaxStalls
  /\ jobState' = "failed"
  /\ failedReason' = "job stalled more than allowable limit"
  /\ UNCHANGED <<schemaVars, apiVars, attemptsMade, stalledCount, deliveries, progress,
                 progressLog, returnvalue, aiConfigured, attemptVars, txVars, rows>>

Next ==
  \/ ApiAddJob \/ ApiAddFails \/ ApiWriteQueued \/ ApiWriteQueuedFails
  \/ TakeJob
  \/ WriteInitializing \/ FetchRule \/ WriteLoadingKnowledgeBase \/ FetchKnowledge
  \/ WriteLoadingImages \/ ResolveImages \/ QueryFails
  \/ WriteBuildingPrompt \/ AiCall \/ AiCallThrows
  \/ WriteAwaitingAi \/ WriteAwaitingAiFails
  \/ WriteFallback \/ WriteSchemaProcessed \/ WritePersisting \/ ProgressWriteFails
  \/ TxConnect \/ TxConnectFails \/ TxBegin \/ TxBeginFails
  \/ TxInsert \/ TxInsertFails \/ TxInsertViolatesForeignKey
  \/ TxCommit \/ TxCommitFails
  \/ TxRollback \/ TxRollbackFails \/ TxRelease
  \/ WriteCompleted \/ Return
  \/ WriteFailed \/ WriteFailedFails \/ Rethrow
  \/ WorkerCrash \/ StalledJobRedelivered \/ StalledJobFails

Spec == Init /\ [][Next]_vars

----------------------------------------------------------------------------
(* Claims about the job                                                    *)

\* positions of the processor after the AI stage and before its end
AfterAiPositions ==
  {"write_fallback", "write_schema_processed", "write_persisting", "tx_connect",
   "tx_begin", "tx_insert", "tx_commit", "tx_rollback", "tx_release",
   "write_completed", "return"}

\* the model call threw, or its reply could not be extracted or parsed
ModelCallFailed == aiOutcome \in {"threw", "unextractable", "unparseable"}

WrittenStages == { progressLog[i].stage : i \in 1..Len(progressLog) }

\* the progress records the processor wrote in this attempt (the enqueue
\* handler writes 'queued', and nothing else does)
WorkerWrites == SelectSeq(progressLog, LAMBDA r : r.stage # "queued")

LastWorkerWrite ==
  IF WorkerWrites = <<>> THEN NoProgress ELSE WorkerWrites[Len(WorkerWrites)]

\* what GET /api/content/jobs/:id answers to the job's owner (content.js 79-89)
JobStatus ==
  [state |-> jobState,
   progress |-> progress,
   hasResult |-> (jobState = "completed" /\ returnvalue.present)]

\* C1 (as stated): when the model call throws or the reply cannot be
\* extracted or parsed, the content is the template built from the keyword
\* and the fallback reason is non-null from then on; the processor that
\* returns has written completed(100), has persisted a row with the template
\* content and returns a non-null fallbackReason.
C1_ModelFailureFallsBack ==
  (ModelCallFailed /\ wpc \in AfterAiPositions)
    => /\ ensureStructuredContent(generatedContent) = "template"
       /\ fallbackReason # ""
       /\ wpc = "return"
            => /\ "completed" \in WrittenStages
               /\ Len(rows) = txRowsBefore + 1
               /\ rows[Len(rows)].content = "template"

\* C2 (as stated): a job that ends completed has at most one
\* generated_content row, whatever retries and re-deliveries preceded.
C2_AtMostOneRowPerCompletedJob ==
  jobState = "completed" => Len(rows) <= 1

\* C3 (as stated): COMMIT is issued only after the callback resolved; when
\* the callback threw, ROLLBACK was issued, the caller gets the callback's
\* error and no row of the transaction is visible; the client is released
\* exactly once in every outcome, and never more than once.
C3_TransactionContract ==
  /\ txCommitIssued => txCallback = "resolved"
  /\ txReleases <= 1
  /\ (txState \in {"returned", "threw"} /\ txClient # "none") => txReleases = 1
  /\ (txState = "threw" /\ txCallback = "threw")
       => /\ txRollbackIssued
          /\ txThrown = txCaught
          /\ Len(rows) = txRowsBefore

\* the parts of C3 that do not depend on which error is thrown
TransactionOrderAndRelease ==
  /\ txCommitIssued => txCallback = "resolved"
  /\ txReleases <= 1
  /\ (txState \in {"returned", "threw"} /\ txClient # "none") => txReleases = 1
  /\ txState = "threw" => Len(rows) = txRowsBefore
  /\ (txState = "threw" /\ txCallback = "threw") => txRollbackIssued

\* C4 (as stated): when the persistence transaction threw, no 'completed'
\* progress is written in the attempt, the last progress the processor wrote
\* is failed(100, message), and the processor rethrows the same error.
C4_FailedProgressIsLast ==
  (txState = "threw" /\ wpc = "rethrow")
    => /\ "completed" \notin WrittenStages
       /\ LastWorkerWrite = ProgressRecord("failed", 100, txThrown)
       /\ err = txThrown

\* C4 (amended): when the persistence transaction threw, no 'completed'
\* progress is written in the attempt and the processor rethrows the same
\* error; the last progress it wrote is failed(100, message) when the
\* 'failed' write succeeded and stays 'persisting' when that write threw.
C4_PersistFailureRethrown ==
  (txState = "threw" /\ wpc = "rethrow")
    => /\ "completed" \notin WrittenStages
       /\ err = txThrown
       /\ failedWrite \in {"ok", "threw"}
       /\ failedWrite = "ok"
            => LastWorkerWrite = ProgressRecord("failed", 100, txThrown)
       /\ failedWrite = "threw" => LastWorkerWrite.stage = "persisting"

\* C4 witness: the INSERT threw, the 'failed' write threw too, and the
\* processor is about to throw the INSERT's error
C4_Witness ==
  /\ wpc = "rethrow"
  /\ txState = "threw" /\ txThrown = "INSERT failed"
  /\ failedWrite = "threw"
  /\ err = "INSERT failed"

\* C5 (as stated): the percents written for the job, from queued(10) on in
\* the first attempt and from initializing(5) on in a retry, are strictly
\* increasing.
C5_PercentStrictlyIncreasing ==
  \A i, j \in 1..Len(progressLog) :
    i < j => progressLog[i].percent < progressLog[j].percent

\* C6 (as stated, its final states): an accepted job that never stalled and
\* has reached a final state is reported as completed with a result, or as
\* failed with an error message in its progress.
C6_FinalStateReported ==
  (apiStatus = 202 /\ stalledCount = 0)
    => /\ JobStatus.state = "completed" => JobStatus.hasResult
       /\ JobStatus.state = "failed"
            => (JobStatus.progress.stage = "failed" /\ JobStatus.progress.error # "")

\* C11 (as stated): when the reply parses as JSON but lacks a string title,
\* meta_description or body, the content is the template text and the
\* fallback annotation is set: fallbackReason is non-null from then on, and
\* the processor that returns has written fallback(75) and has persisted a
\* row with the template content.
C11_IncompleteReplyFallsBack ==
  (generatedContent = "incomplete" /\ wpc \in AfterAiPositions)
    => /\ ensureStructuredContent(generatedContent) = "template"
       /\ fallbackReason # ""
       /\ wpc = "return"
            => /\ "fallback" \in WrittenStages
               /\ Len(rows) = txRowsBefore + 1
               /\ rows[Len(rows)].content = "template"

SchemaFallbackReasons ==
  {"schema_payload_missing", "schema_payload_invalid", "schema_payload_empty"}

----------------------------------------------------------------------------
(* Claims about the rule lookup                                            *)

\* C18 (as stated): a job whose ruleId names no rule of its user is
\* processed with empty rule settings, its INSERT is not refused for the
\* rule, and the missing rule never is the reason the job fails.
C18_MissingRuleTolerated ==
  ruleLookup # "found"
    => /\ ruleCfg = NoLayer
       /\ txCaught # "foreign key violation"
       /\ jobState = "failed" => failedReason # "foreign key violation"

----------------------------------------------------------------------------
(* POST /api/content/generate from the request body on (validation.js 4-9, *)
(* 175-188; content.js 10-51), for an authenticated user                   *)

\* values of an id field of the body: no key, null, '', 0, a non-zero
\* integer (or its decimal string), a string that is no number
IdValues == {"absent", "null", "empty", "zero", "id", "text"}

\* request bodies
Requests ==
  [keyword : {"missing", "text"}, ruleId : {"missing", "id"},
   knowledgeBaseId : IdValues, knowledgeSetId : IdValues]

\* validation.js 176-178, 183: keyword and ruleId are required, and
\* knowledgeBaseId is an integer, '' or null; knowledgeSetId is no key of
\* the schema and stripUnknown lets it pass; the body itself is not changed
validationPasses(body) ==
  /\ body.keyword = "text"
  /\ body.ruleId = "id"
  /\ body.knowledgeBaseId # "text"

\* JavaScript truthiness of an id value
truthyId(v) == v \in {"id", "text"}

\* a wrong handler that never refuses a request for its knowledge scopes
rejectsBothScopesNever(body) == FALSE

\* content.js 26: knowledgeBaseId && knowledgeSetId
rejectsBothScopes(body) ==
  truthyId(body.knowledgeBaseId) /\ truthyId(body.knowledgeSetId)

InitEnqueue ==
  /\ spc = "job"
  /\ ruleCfg = NoLayer /\ jobCfg = NoLayer /\ overrideCfg = NoLayer
  /\ mergedSchemaConfig = EmptyConfig
  /\ rawSchema = UnsetRawSchema
  /\ schemaOut = UnsetSchemaOut
  /\ schemaTypeArray = NullTypeArray
  /\ aiConfigured = FALSE
  /\ ruleLookup = "found"
  /\ apiPc = "validate" /\ apiStatus = 0
  /\ req \in Requests
  /\ NothingQueued
  /\ NoOtherRoutes

\* validation.js 4-9: the validate middleware
ApiValidate ==
  /\ apiPc = "validate"
  /\ IF validationPasses(req)
     THEN apiPc' = "check_scope" /\ apiStatus' = apiStatus
     ELSE apiPc' = "responded" /\ apiStatus' = 400
  /\ UNCHANGED <<schemaVars, queueVars, aiConfigured, attemptVars, txVars, rows, stageVars>>

\* content.js 26-28
ApiCheckScope ==
  /\ apiPc = "check_scope"
  /\ IF rejectsBothScopes(req)
     THEN apiPc' = "responded" /\ apiStatus' = 400
     ELSE apiPc' = "request" /\ apiStatus' = apiStatus
  /\ UNCHANGED <<schemaVars, queueVars, aiConfigured, attemptVars, txVars, rows, stageVars>>

NextEnqueue ==
  \/ ApiValidate \/ ApiCheckScope
  \/ ApiAddJob \/ ApiAddFails \/ ApiWriteQueued \/ ApiWriteQueuedFails

SpecEnqueue == InitEnqueue /\ [][NextEnqueue]_vars

\* the body names a knowledge document and a knowledge set
SetsBothScopes ==
  /\ req.knowledgeBaseId \in {"id", "text"}
  /\ req.knowledgeSetId \in {"id", "text"}

\* C17: a request that names both a knowledge document and a knowledge set
\* is answered with 400 and by no other status, and no job is added to the
\* queue for it.
C17_BothScopesRejected ==
  SetsBothScopes
    => /\ jobState = "none"
       /\ apiStatus \in {0, 400}
       /\ apiPc = "responded" => apiStatus = 400
       /\ apiPc \in {"validate", "check_scope", "responded"}

\* C17 witness: a body that passes validation and names both scopes was
\* answered with 400 by the handler
C17_Witness ==
  /\ validationPasses(req)
  /\ req.knowledgeBaseId = "id" /\ req.knowledgeSetId = "id"
  /\ apiPc = "responded" /\ apiStatus = 400
  /\ jobState = "none"

----------------------------------------------------------------------------
(* Knowledge retrieval (worker.js 873-1210), step by step.  Texts are      *)
(* modelled by their lengths; a document's raw text by the length of what  *)
(* sanitizeKnowledgeText makes of it.  The chunk statistics and the chunk  *)
(* queries of one call see the same chunks.                                *)

\* worker.js 17-19
MAX_KNOWLEDGE_BASE_CHAR_LENGTH == 8000
MAX_KNOWLEDGE_BASE_SNIPPETS == 5
FALLBACK_KNOWLEDGE_BASE_SNIPPETS == 5

\* chunk contents: '', a short text, a long text
ChunkLens == {0, 3, 5000}

\* a document_chunks row: its owning document (position in kbDocs), the
\* length of its content, whether its embedding is not null
ChunkKinds == [len : ChunkLens, embedded : BOOLEAN]

\* the chunks of a document in chunk_index order: every list of at most two
\* chunks, and lists longer than the snippet limit
ChunkLists ==
  {<<>>}
  \cup { <<c>> : c \in ChunkKinds }
  \cup { <<c, d>> : c \in ChunkKinds, d \in ChunkKinds }
  \cup { [i \in 1..6 |-> [len |-> l, embedded |-> e]] :
           l \in {3, 5000}, e \in BOOLEAN }

\* the chunk lists of the documents of a set
SetChunkLists ==
  { <<>>,
    <<[len |-> 0, embedded |-> FALSE]>>,
    <<[len |-> 5000, embedded |-> TRUE], [len |-> 5000, embedded |-> FALSE]>> }

\* lengths of the sanitized raw text of a file
RawLens == {0, 4500, 7995, 8000, 9000}

\* lengths of file_name
NameLens == {1, 8}

Documents == [rawLen : RawLens, nameLen : NameLens, chunks : ChunkLists]

SetDocuments == [rawLen : RawLens, nameLen : {1}, chunks : SetChunkLists]

\* the documents of a knowledge set, in the order of the documents query
DocumentSets ==
  {<<>>} \cup { <<d>> : d \in SetDocuments }
         \cup { <<d, e>> : d \in SetDocuments, e \in SetDocuments }

RECURSIVE SumSeq(_)
SumSeq(q) == IF q = <<>> THEN 0 ELSE Head(q) + SumSeq(Tail(q))

\* the length of parts.join('\n\n')
JoinLength(lens) ==
  IF lens = <<>> THEN 0 ELSE SumSeq(lens) + 2 * (Len(lens) - 1)

\* the chunk rows of the scope, each with its document: ORDER BY document_id,
\* chunk_index (the documents are numbered in kbDocs order)
RECURSIVE ScopeChunks(_, _)
ScopeChunks(docs, i) ==
  IF i > Len(docs) THEN <<>>
  ELSE [k \in 1..Len(docs[i].chunks) |->
          [doc |-> i, len |-> docs[i].chunks[k].len,
           embedded |-> docs[i].chunks[k].embedded]]
       \o ScopeChunks(docs, i + 1)

\* worker.js 752-794: COUNT(*), the count of non-null embeddings and
\* SUM(char_length(content))
chunkStatsOf(docs) ==
  LET all == ScopeChunks(docs, 1)
  IN  [chunkCount |-> Len(all),
       embeddingCount |-> Len(SelectSeq(all, LAMBDA c : c.embedded)),
       totalLength |-> SumSeq([k \in 1..Len(all) |-> all[k].len])]

\* the length of `## ${file_name}\n`
HeadingLength(doc) == 3 + doc.nameLen + 1

\* worker.js 937-939 and 1098-1104: the length of what one row contributes
snippetLength(scope, docs, row) ==
  IF scope = "set" THEN HeadingLength(docs[row.doc]) + row.len ELSE row.len

\* combinedContent.length of the rows selected
combinedSnippetLength(scope, docs, rowSeq) ==
  JoinLength([k \in 1..Len(rowSeq) |-> snippetLength(scope, docs, rowSeq[k])])

\* worker.js 719-731, 814-829: the first `limit` rows in stored order
fetchFallbackChunks(docs, limit) ==
  LET all == ScopeChunks(docs, 1)
  IN  SubSeq(all, 1, IF Len(all) < limit THEN Len(all) ELSE limit)

\* the elements of a set of numbers in ascending order
RECURSIVE Ascending(_)
Ascending(S) ==
  IF S = {} THEN <<>>
  ELSE LET m == CHOOSE x \in S : \A y \in S : x <= y
       IN  <<m>> \o Ascending(S \ {m})

\* worker.js 733-749, 796-812: the rows the vector query can return: `limit`
\* of the embedded rows (all of them when there are fewer), whichever are
\* nearest to the query vector
fetchRelevantChunks(docs, limit) ==
  LET all == ScopeChunks(docs, 1)
      emb == { k \in 1..Len(all) : all[k].embedded }
      n   == IF Cardinality(emb) < limit THEN Cardinality(emb) ELSE limit
  IN  { [j \in 1..n |-> all[Ascending(pick)[j]]] :
          pick \in { x \in SUBSET emb : Cardinality(x) = n } }

\* a wrong catch of generateQueryEmbedding that lets the error escape
embeddingAfterCallEscapes(outcome) == outcome

\* worker.js 694-717: what generateQueryEmbedding returns when the call to
\* the embedding service came to `outcome`: a thrown call is caught and
\* gives null, as does a reply without an embedding
embeddingAfterCall(outcome) ==
  IF outcome = "vector" THEN "vector" ELSE "none"

\* worker.js 123: null unless the embedding is an array
vectorLiteral(embedding) == IF embedding = "vector" THEN "literal" ELSE "null"

\* a wrong cut that also reports content of exactly the ceiling as truncated
isTruncatedAtCeiling(length) == length >= MAX_KNOWLEDGE_BASE_CHAR_LENGTH

\* worker.js 978, 1151
isTruncated(length) == length > MAX_KNOWLEDGE_BASE_CHAR_LENGTH

\* worker.js 979-981, 1152-1154: the length of the content returned
normalizedLength(length) ==
  IF isTruncated(length) THEN MAX_KNOWLEDGE_BASE_CHAR_LENGTH ELSE length

\* a wrong raw tier that is never entered
needsRawReadNever(length) == FALSE

\* worker.js 942, 1106: `!combinedContent`
needsRawRead(length) == length = 0

\* the retrievalMode names of the two scopes
modeOf(scope, tier) ==
  IF scope # "set" THEN tier
  ELSE CASE tier = "vector"  -> "vector_set"
         [] tier = "chunk"   -> "chunk_set"
         [] tier = "raw"     -> "raw_set"
         [] tier = "missing" -> "missing_set"
         [] OTHER            -> tier

(* ---- the processor is at worker.js 1363, about to call retrieval ---- *)

\* the job after its 'loading_knowledge_base' progress write
AtKnowledgeRetrieval ==
  /\ apiPc = "responded" /\ apiStatus = 202
  /\ jobState = "active" /\ attemptsMade = 0 /\ stalledCount = 0 /\ deliveries = 1
  /\ progress = ProgressRecord("loading_knowledge_base", 15, "")
  /\ progressLog = <<ProgressRecord("queued", 10, ""),
                     ProgressRecord("initializing", 5, ""),
                     ProgressRecord("loading_knowledge_base", 15, "")>>
  /\ returnvalue = NoReturnValue /\ failedReason = ""
  /\ wpc = "fetch_kb"
  /\ FreshAttempt
  /\ FreshTx
  /\ rows = <<>>

InitRetrieval ==
  /\ spc = "job"
  /\ ruleCfg = NoLayer /\ jobCfg = NoLayer /\ overrideCfg = NoLayer
  /\ mergedSchemaConfig = EmptyConfig
  /\ rawSchema = UnsetRawSchema
  /\ schemaOut = UnsetSchemaOut
  /\ schemaTypeArray = NullTypeArray
  /\ aiConfigured = TRUE
  /\ ruleLookup = "found"
  /\ req = PlainRequest
  /\ NoImages
  /\ NoOtherRoutes
  /\ AtKnowledgeRetrieval
  /\ embeddingConfigured \in BOOLEAN
  /\ \/ kbScope = "none" /\ kbFound = FALSE /\ kbDocs = <<>>
     \/ kbScope \in {"document", "set"} /\ kbFound = FALSE /\ kbDocs = <<>>
     \/ kbScope = "document" /\ kbFound = TRUE
          /\ \E d \in Documents : kbDocs = <<d>>
     \/ kbScope = "set" /\ kbFound = TRUE /\ kbDocs \in DocumentSets
  /\ kpc = "call"
  /\ embeddingOutcome = "not_called"
  /\ FreshRetrieval

KbFrame ==
  UNCHANGED <<schemaVars, apiVars, queueVars, aiConfigured, fallbackReason, aiOutcome,
              reply, generatedContent, failedWrite, txVars, rows, kbInputs,
              req, ruleLookup, imgInputs, imgLocals, routeVars>>

\* an await inside retrieval resolved and retrieval goes on
KbGoto(pos, found, mode) ==
  /\ kpc' = pos
  /\ snippetRows' = found
  /\ retrievalMode' = mode
  /\ UNCHANGED <<combinedLength, kbResult, wpc, err>>

\* worker.js 1004, 1194, and 0 in the early returns: `a || b` is b when a is 0.
\* For a document read from its file the statistics carry the length of the
\* file's text (949-953).
originalLengthOf(scope, mode, stats, length) ==
  IF mode \notin {"vector", "chunk", "raw", "vector_set", "chunk_set", "raw_set"} THEN 0
  ELSE IF scope = "document"
  THEN (IF mode # "raw" /\ stats.totalLength # 0 THEN stats.totalLength ELSE length)
  ELSE (IF stats.totalLength # 0 THEN stats.totalLength ELSE normalizedLength(length))

\* retrieval returns to the processor, which goes on to worker.js 1386; the
\* statistics are those of the statistics query, which every return with
\* content follows
KbReturn(found, mode, length, snippetCount) ==
  /\ kpc' = "returned"
  /\ snippetRows' = found
  /\ retrievalMode' = mode
  /\ combinedLength' = length
  /\ kbResult' = [returned |-> TRUE, retrievalMode |-> mode,
                  contentLength |-> normalizedLength(length),
                  truncated |-> isTruncated(length),
                  snippetCount |-> snippetCount,
                  originalLength |-> originalLengthOf(kbScope, mode, chunkStats, length)]
  /\ wpc' = "write_loading_images"
  /\ UNCHANGED err

\* retrieval throws to the processor's catch (worker.js 1584)
KbThrow(error) ==
  /\ kpc' = "threw"
  /\ wpc' = "catch"
  /\ err' = error
  /\ UNCHANGED <<snippetRows, retrievalMode, combinedLength, kbResult>>

\* worker.js 937-942, 1098-1106: the tiers are done; the content is built
\* from the rows, and the raw tier is entered when it is empty
AfterTiers(found, mode) ==
  LET length == combinedSnippetLength(kbScope, kbDocs, found)
  IN  IF needsRawRead(length)
      THEN KbGoto("raw_read", found, mode)
      ELSE KbReturn(found, mode, length, Len(found))

\* worker.js 930, 1086: after the vector tier
AfterVectorTier(stats, found, mode) ==
  IF found = <<>> /\ stats.chunkCount > 0
  THEN KbGoto("chunk_query", found, mode)
  ELSE AfterTiers(found, mode)

\* worker.js 873-892: the dispatch, and the return for no knowledge scope
KbCall ==
  /\ kpc = "call"
  /\ IF kbScope = "none"
     THEN KbReturn(<<>>, "none", 0, 0)
     ELSE KbGoto("meta_query", <<>>, "none")
  /\ UNCHANGED <<chunkStats, queryEmbedding, embeddingOutcome, sections, docIdx, readErrors>>
  /\ KbFrame

\* worker.js 894-910, 1020-1036: the document / the set is looked up
KbMetaQuery ==
  /\ kpc = "meta_query"
  /\ IF ~kbFound
     THEN KbReturn(<<>>, modeOf(kbScope, "missing"), 0, 0)
     ELSE KbGoto(IF kbScope = "set" THEN "docs_query" ELSE "stats_query", <<>>, "none")
  /\ UNCHANGED <<chunkStats, queryEmbedding, embeddingOutcome, sections, docIdx, readErrors>>
  /\ KbFrame

\* worker.js 1039-1067: the documents of the set
KbDocsQuery ==
  /\ kpc = "docs_query"
  /\ IF kbDocs = <<>>
     THEN KbReturn(<<>>, "empty_set", 0, 0)
     ELSE KbGoto("stats_query", <<>>, "none")
  /\ UNCHANGED <<chunkStats, queryEmbedding, embeddingOutcome, sections, docIdx, readErrors>>
  /\ KbFrame

\* worker.js 914-919, 1070-1075: the chunk statistics, then the choice of tier
KbStatsQuery ==
  /\ kpc = "stats_query"
  /\ chunkStats' = chunkStatsOf(kbDocs)
  /\ IF embeddingConfigured /\ chunkStats'.embeddingCount > 0
     THEN KbGoto("embedding", <<>>, "none")
     ELSE AfterVectorTier(chunkStats', <<>>, "none")
  /\ UNCHANGED <<queryEmbedding, embeddingOutcome, sections, docIdx, readErrors>>
  /\ KbFrame

\* worker.js 920-922, 1076-1078, 694-717: the call to the embedding service threw,
\* replied without an embedding, or replied with one
KbEmbedding ==
  /\ kpc = "embedding"
  /\ \E outcome \in {"threw", "none", "vector"} :
       /\ embeddingOutcome' = outcome
       /\ IF embeddingAfterCall(outcome) = "threw"
          THEN /\ KbThrow("embedding failed")
               /\ UNCHANGED queryEmbedding
          ELSE /\ queryEmbedding' = embeddingAfterCall(outcome)
               /\ IF vectorLiteral(queryEmbedding') # "null"
                  THEN KbGoto("vector_query", <<>>, "none")
                  ELSE AfterVectorTier(chunkStats, <<>>, "none")
  /\ UNCHANGED <<chunkStats, sections, docIdx, readErrors>>
  /\ KbFrame

\* worker.js 923-926, 1079-1082
KbVectorQuery ==
  /\ kpc = "vector_query"
  /\ \E found \in fetchRelevantChunks(kbDocs, MAX_KNOWLEDGE_BASE_SNIPPETS) :
       AfterVectorTier(chunkStats, found,
                       IF found # <<>> THEN modeOf(kbScope, "vector") ELSE "none")
  /\ UNCHANGED <<chunkStats, queryEmbedding, embeddingOutcome, sections, docIdx, readErrors>>
  /\ KbFrame

\* worker.js 930-935, 1086-1091
KbChunkQuery ==
  /\ kpc = "chunk_query"
  /\ LET found == fetchFallbackChunks(kbDocs, FALLBACK_KNOWLEDGE_BASE_SNIPPETS)
     IN  AfterTiers(found, IF found # <<>> THEN modeOf(kbScope, "chunk")
                           ELSE retrievalMode)
  /\ UNCHANGED <<chunkStats, queryEmbedding, embeddingOutcome, sections, docIdx, readErrors>>
  /\ KbFrame

\* worker.js 943-953, 978-1016: the file of the document was read
KbRawRead ==
  /\ kpc = "raw_read"
  /\ kbScope = "document"
  /\ KbReturn(snippetRows, "raw", kbDocs[1].rawLen, Len(snippetRows))
  /\ UNCHANGED <<chunkStats, queryEmbedding, embeddingOutcome, sections, docIdx, readErrors>>
  /\ KbFrame

\* worker.js 954-975: the read threw
KbRawReadFails ==
  /\ kpc = "raw_read"
  /\ kbScope = "document"
  /\ readErrors' = readErrors + 1
  /\ KbReturn(snippetRows, "error", 0, 0)
  /\ UNCHANGED <<chunkStats, queryEmbedding, embeddingOutcome, sections, docIdx>>
  /\ KbFrame

\* worker.js 1108, 1117-1119: the loop over the documents ends
rawLoopDone(read, sectionLens) ==
  \/ read = Len(kbDocs)
  \/ JoinLength(sectionLens) >= MAX_KNOWLEDGE_BASE_CHAR_LENGTH

\* worker.js 1128-1149: after the loop
AfterRawLoop(sectionLens) ==
  IF JoinLength(sectionLens) > 0
  THEN KbReturn(snippetRows, "raw_set", JoinLength(sectionLens), Len(snippetRows))
  ELSE KbReturn(snippetRows, "error", 0, 0)

\* worker.js 1108-1127: one pass of the loop: the next file of the set is
\* read, or the read throws and the document is skipped
KbRawReadSet ==
  /\ kpc = "raw_read"
  /\ kbScope = "set"
  /\ docIdx < Len(kbDocs)
  /\ docIdx' = docIdx + 1
  /\ \E readable \in BOOLEAN :
       LET doc == kbDocs[docIdx + 1]
       IN  /\ sections' = IF readable /\ doc.rawLen > 0
                          THEN Append(sections, HeadingLength(doc) + doc.rawLen)
                          ELSE sections
           /\ readErrors' = IF readable THEN readErrors ELSE readErrors + 1
           /\ IF (readable /\ rawLoopDone(docIdx', sections')) \/ docIdx' = Len(kbDocs)
              THEN AfterRawLoop(sections')
              ELSE KbGoto("raw_read", snippetRows, retrievalMode)
  /\ UNCHANGED <<chunkStats, queryEmbedding, embeddingOutcome>>
  /\ KbFrame

\* a query of retrieval rejected: nothing in retrieval catches it
KbQueryFails ==
  /\ kpc \in {"meta_query", "docs_query", "stats_query", "vector_query", "chunk_query"}
  /\ KbThrow("query failed")
  /\ UNCHANGED <<chunkStats, queryEmbedding, embeddingOutcome, sections, docIdx, readErrors>>
  /\ KbFrame

NextRetrieval ==
  \/ KbCall \/ KbMetaQuery \/ KbDocsQuery \/ KbStatsQuery \/ KbEmbedding
  \/ KbVectorQuery \/ KbChunkQuery \/ KbRawRead \/ KbRawReadFails \/ KbRawReadSet
  \/ KbQueryFails
  \/ WriteLoadingImages

SpecRetrieval == InitRetrieval /\ [][NextRetrieval]_vars

----------------------------------------------------------------------------
(* Claims about retrieval                                                  *)

\* the scope is one existing document of the user
OneDocument == kbScope = "document" /\ kbFound /\ Len(kbDocs) = 1

NoChunkEmbedded(doc) == \A k \in 1..Len(doc.chunks) : ~doc.chunks[k].embedded

\* C13: for an existing document of the user with zero chunks, the result
\* of retrieval has retrievalMode raw or error, with or without an
\* embedding configuration.
C13_ZeroChunksRawOrError ==
  (OneDocument /\ kbResult.returned /\ kbDocs[1].chunks = <<>>)
    => kbResult.retrievalMode \in {"raw", "error"}

\* C13 witness: embeddings are configured, the document has no chunks and
\* its file was read
C13_Witness ==
  /\ OneDocument /\ kbResult.returned
  /\ embeddingConfigured
  /\ kbDocs[1].chunks = <<>>
  /\ kbDocs[1].rawLen = 4500
  /\ kbResult.retrievalMode = "raw"
  /\ kbResult.contentLength = 4500

\* C14 (as stated): for an existing document with one or more chunks, none
\* of them embedded, the result has retrievalMode chunk and its rows are the
\* first 5 chunks in chunk_index order, whatever the chunk contents are.
C14_UnembeddedChunksGiveChunkMode ==
  (OneDocument /\ kbResult.returned
     /\ kbDocs[1].chunks # <<>> /\ NoChunkEmbedded(kbDocs[1]))
    => /\ kbResult.retrievalMode = "chunk"
       /\ snippetRows = fetchFallbackChunks(kbDocs, 5)

\* the sanitized raw text of the documents of the scope, in total
TotalRawLength == SumSeq([i \in 1..Len(kbDocs) |-> kbDocs[i].rawLen])

C20_RetrievalFailuresDegrade ==
  /\ embeddingOutcome \in {"threw", "none"}
       => /\ queryEmbedding = "none"
          /\ kpc # "vector_query"
          /\ kbResult.returned
               => kbResult.retrievalMode \in {"chunk", "chunk_set", "raw", "raw_set", "error"}
  /\ (kbScope = "document" /\ readErrors > 0 /\ kbResult.returned)
       => /\ kbResult.retrievalMode = "error"
          /\ kbResult.contentLength = 0
  /\ kbResult.returned
       => /\ wpc \in {"write_loading_images", "resolve_images"}
          /\ err = ""
  /\ kpc = "threw" => err = "query failed"

\* C20 witness: the embedding call threw, retrieval returned the chunks and
\* the processor has written its 'loading_images' progress
C20_Witness ==
  /\ embeddingOutcome = "threw"
  /\ kbResult.returned
  /\ kbResult.retrievalMode = "chunk"
  /\ wpc = "resolve_images"
  /\ progress.stage = "loading_images"

----------------------------------------------------------------------------
(* Image resolution (worker.js 1212-1308, 1388-1411) and the structured    *)
(* content built from its result when no model is configured (1413-1495,   *)
(* 831-860).  The rows a query returns are modelled as a set: ORDER BY     *)
(* RANDOM() with a LIMIT returns any rows of the right number.             *)

Tags == {"a", "b"}

Image(id, owner, collection, tags) ==
  [id |-> id, owner |-> owner, collection |-> collection, tags |-> tags]

\* rows of the images table: collection 0 is collection_id NULL; the job's
\* user is "user"
ImageUniverse ==
  { Image(1, "user", 0, {"a"}),
    Image(2, "user", 0, {}),
    Image(3, "user", 1, {"a", "b"}),
    Image(4, "user", 1, {"b"}),
    Image(5, "other", 1, {"a"}),
    Image(6, "other", 0, {"a"}) }

ImageTables == SUBSET ImageUniverse

\* the image fields of job.data
JobImageFields ==
  [imageIds : {{}, {3}, {1, 5}}, imageCollectionId : {0, 1},
   imageTags : {{}, {"a"}}, imageCount : {AbsentCount, 0, 1}]

\* rule?.media_settings
RuleMediaSettings ==
  {NoRuleMedia, [image_count |-> 1, tags |-> {"b"}, collection_id |-> 1]}

\* worker.js 1388-1393
requestedImageCount(job, media) ==
  IF job.imageCount # AbsentCount THEN job.imageCount
  ELSE IF media.image_count # AbsentCount THEN media.image_count
  ELSE 0

\* worker.js 1395-1400
tagFiltersOf(job, media) ==
  IF job.imageTags # {} THEN job.imageTags ELSE media.tags

\* worker.js 1402-1403
collectionIdOf(job, media) ==
  IF job.imageCollectionId # 0 THEN job.imageCollectionId ELSE media.collection_id

\* worker.js 1235-1238, 1260-1263: `tags && $n`, added for a non-empty filter
matchesTags(image, filters) ==
  filters = {} \/ image.tags \cap filters # {}

\* worker.js 1240-1249, 1265-1274: the rows are cut when limit is positive
limitedRows(matching, limit) ==
  IF limit > 0
  THEN LET n == IF Cardinality(matching) < limit THEN Cardinality(matching) ELSE limit
       IN  { picked \in SUBSET matching : Cardinality(picked) = n }
  ELSE {matching}

\* a wrong query by ids that does not look at the owner
fetchImagesByIdsAnyOwner(table, ids, userId) ==
  { { image \in table : image.id \in ids } }

\* worker.js 1212-1225
fetchImagesByIds(table, ids, userId) ==
  { { image \in table : image.id \in ids /\ image.owner = userId } }

\* worker.js 1227-1254
fetchImagesFromCollection(table, collection, userId, limit, filters) ==
  limitedRows({ image \in table : /\ image.owner = userId
                                  /\ image.collection = collection
                                  /\ matchesTags(image, filters) }, limit)

\* worker.js 1256-1279
fetchImagesFromLibrary(table, userId, limit, filters) ==
  limitedRows({ image \in table : /\ image.owner = userId
                                  /\ image.collection = 0
                                  /\ matchesTags(image, filters) }, limit)

\* worker.js 1295-1308: the image sets resolveImages can return
resolveImages(table, manualImageIds, collection, requestedCount, filters, userId) ==
  IF manualImageIds # {} THEN fetchImagesByIds(table, manualImageIds, userId)
  ELSE IF collection # 0
  THEN fetchImagesFromCollection(table, collection, userId, requestedCount, filters)
  ELSE fetchImagesFromLibrary(table, userId, requestedCount, filters)

\* worker.js 831-860: the title holds the keyword, the body holds one
\* [IMAGE_n] placeholder for each selected image
buildFallbackContent(images) ==
  [built |-> TRUE, source |-> "template", titleHasKeyword |-> TRUE,
   placeholders |-> Cardinality(images)]

\* the job after its 'loading_images' progress write
AtImageResolution ==
  /\ apiPc = "responded" /\ apiStatus = 202
  /\ jobState = "active" /\ attemptsMade = 0 /\ stalledCount = 0 /\ deliveries = 1
  /\ progress = ProgressRecord("loading_images", 30, "")
  /\ progressLog = <<ProgressRecord("queued", 10, ""),
                     ProgressRecord("initializing", 5, ""),
                     ProgressRecord("loading_knowledge_base", 15, ""),
                     ProgressRecord("loading_images", 30, "")>>
  /\ returnvalue = NoReturnValue /\ failedReason = ""
  /\ wpc = "resolve_images"
  /\ FreshAttempt
  /\ FreshTx
  /\ rows = <<>>

InitImages ==
  /\ spc = "job"
  /\ ruleCfg = NoLayer /\ jobCfg = NoLayer /\ overrideCfg = NoLayer
  /\ mergedSchemaConfig = EmptyConfig
  /\ rawSchema = UnsetRawSchema
  /\ schemaOut = UnsetSchemaOut
  /\ schemaTypeArray = NullTypeArray
  /\ aiConfigured \in BOOLEAN
  /\ req = PlainRequest
  /\ NoRetrieval
  /\ NoOtherRoutes
  /\ AtImageResolution
  /\ jobImages \in JobImageFields
  /\ imagesTable \in ImageTables
  /\ \/ ruleLookup = "found" /\ ruleMedia \in RuleMediaSettings
     \/ ruleLookup = "other_user" /\ ruleMedia = NoRuleMedia
  /\ selectedImages = {}
  /\ safeContent = NoSafeContent

ImgFrame ==
  UNCHANGED <<apiVars, queueVars, aiConfigured, txVars, rows, kbInputs, kbLocals,
              req, ruleLookup, imgInputs, routeVars>>

\* worker.js 1388-1423, 1495: resolveImages resolved; without a model
\* configuration the structured content is the template content
ImgResolve ==
  /\ wpc = "resolve_images"
  /\ \E found \in resolveImages(imagesTable, jobImages.imageIds,
                                collectionIdOf(jobImages, ruleMedia),
                                requestedImageCount(jobImages, ruleMedia),
                                tagFiltersOf(jobImages, ruleMedia), "user") :
       /\ selectedImages' = found
       /\ IF aiConfigured
          THEN /\ Goto("write_building_prompt")
               /\ UNCHANGED <<schemaVars, safeContent>>
          ELSE /\ AfterAiStage("AI service is not configured.", "null", "not_called")
               /\ safeContent' = buildFallbackContent(found)
  /\ ImgFrame

\* worker.js 1405: a query of resolveImages rejected
ImgQueryFails ==
  /\ wpc = "resolve_images"
  /\ wpc' = "catch"
  /\ err' = "query failed"
  /\ UNCHANGED <<fallbackReason, aiOutcome, reply, generatedContent, failedWrite>>
  /\ UNCHANGED <<schemaVars, imgLocals>>
  /\ ImgFrame

NextImages ==
  \/ ImgResolve \/ ImgQueryFails
  \/ WriteBuildingPrompt \/ WriteFallback
  \/ WritePersisting \/ TxConnect \/ TxBegin \/ TxInsert \/ TxCommit \/ TxRelease

SpecImages == InitImages /\ [][NextImages]_vars

\* resolveImages has returned to the processor
ImagesResolved == wpc \notin {"resolve_images", "catch"}

\* C16 (as stated): without a model configuration no model call is made,
\* the fallback reason is set and the title of the content holds the
\* keyword; for a job with no rule, no knowledge scope, no imageIds, no
\* collection and no count the body holds no [IMAGE_n] placeholder.
C16_UnconfiguredModelNoPlaceholders ==
  (~aiConfigured /\ ImagesResolved)
    => /\ aiOutcome = "not_called"
       /\ fallbackReason # ""
       /\ safeContent.built /\ safeContent.titleHasKeyword
       /\ (/\ ruleLookup # "found"
           /\ kbScope = "none"
           /\ jobImages.imageIds = {}
           /\ jobImages.imageCollectionId = 0
           /\ jobImages.imageCount = AbsentCount)
            => safeContent.placeholders = 0

\* C19: with a non-empty id list the result is exactly the user's images
\* with those ids; otherwise with a collection id it holds only images of
\* that collection, and else only images without a collection; every image
\* of the result is the user's, and with a tag filter every image of the two
\* sampled branches shares a tag with it.
C19_ImagePrecedence ==
  ImagesResolved
    => LET manual     == jobImages.imageIds
           collection == collectionIdOf(jobImages, ruleMedia)
           filters    == tagFiltersOf(jobImages, ruleMedia)
       IN  /\ selectedImages \subseteq imagesTable
           /\ \A image \in selectedImages : image.owner = "user"
           /\ manual # {}
                => selectedImages =
                     { image \in imagesTable : image.id \in manual /\ image.owner = "user" }
           /\ (manual = {} /\ collection # 0)
                => \A image \in selectedImages : image.collection = collection
           /\ (manual = {} /\ collection = 0)
                => \A image \in selectedImages : image.collection = 0
           /\ (manual = {} /\ filters # {})
                => \A image \in selectedImages : image.tags \cap filters # {}

\* C19 witness: the id list names an image of the user outside the
\* collection asked for and an image of another user; the result is the
\* user's image alone
C19_Witness ==
  /\ ImagesResolved
  /\ jobImages.imageIds = {1, 5}
  /\ jobImages.imageCollectionId = 1
  /\ jobImages.imageCount = 0
  /\ imagesTable = ImageUniverse
  /\ selectedImages = {Image(1, "user", 0, {"a"})}

----------------------------------------------------------------------------
(* Claims about the order of the terminal progress writes                  *)

\* C24: in every attempt 'completed' is written only after the INSERT of
\* the attempt has committed, so that the row is there for whoever sees
\* stage completed, and 'failed' is not written in an attempt that wrote
\* 'completed'.
C24_CompletedOnlyAfterCommit ==
  /\ "completed" \in WrittenStages
       => /\ Len(rows) >= 1
          /\ "failed" \notin WrittenStages
          /\ wpc = "return"
               => /\ txState = "returned" /\ txCommitIssued /\ txCallback = "resolved"
                  /\ Len(rows) = txRowsBefore + 1
  /\ progress.stage = "completed" => Len(rows) >= 1
  /\ wpc = "write_completed" => (txCommitIssued /\ Len(rows) = txRowsBefore + 1)

\* C24 witness: a retry, after an attempt that failed, has committed its row
\* and written 'completed'
C24_Witness ==
  /\ wpc = "return"
  /\ attemptsMade = 1
  /\ progress.stage = "completed"
  /\ "completed" \in WrittenStages
  /\ Len(rows) = 1

\* C25 (as stated): the queued(10) progress of the enqueue handler is never
\* written after a progress of the worker: no record of the attempt precedes
\* a 'queued' record, and 'queued' never replaces 'completed' or 'failed'.
C25_QueuedNeverAfterWorkerWrite ==
  \A i, j \in 1..Len(progressLog) :
    (i < j /\ progressLog[j].stage = "queued") => progressLog[i].stage = "queued"

----------------------------------------------------------------------------
(* Claims about the schema record                                          *)

\* C27 (as stated): in every schema record that processSchemaOutput returns
\* without a fallback, the set of types equals the key set of payloads: no
\* type is listed without a payload.
C27_TypesEqualPayloadKeys ==
  (spc = "persistable" /\ schemaOut.hasRecord /\ schemaOut.fallback = "none")
    => schemaOut.types = schemaOut.payloadKeys

----------------------------------------------------------------------------
(* Claims about the lengths a retrieval result reports                     *)

\* C28 (as stated): in every retrieval result originalLength is at least
\* the length of content, and greater than it when truncated is true.
C28_OriginalLengthBoundsContent ==
  kbResult.returned
    => /\ kbResult.originalLength >= kbResult.contentLength
       /\ kbResult.truncated => kbResult.originalLength > kbResult.contentLength

----------------------------------------------------------------------------
(* Claims about the image ids of a row                                     *)

\* C26 (as stated): the image_ids of a persisted row are exactly the ids of
\* the images resolveImages returned, all of them images of the job's user;
\* a requested id that matches no image of the user is never persisted.
C26_PersistedImageIdsAreResolved ==
  (wpc = "write_completed" /\ Len(rows) = txRowsBefore + 1)
    => LET row == rows[Len(rows)]
       IN  /\ row.image_ids = { image.id : image \in selectedImages }
           /\ \A id \in row.image_ids :
                \E image \in imagesTable : image.id = id /\ image.owner = "user"

----------------------------------------------------------------------------
(* Claims about content and schema taken together                          *)

\* the step of worker.js 1465-1528 in which a reply was parsed
ReplyParsed == wpc = "write_awaiting_ai" /\ aiOutcome' = "parsed"

\* C23: a parsed reply without usable title / meta_description / body but
\* with a usable payload for an enabled type gives the template content, the
\* model's payload and no schema fallback; a parsed reply with usable title /
\* meta_description / body but without a usable schema part gives the
\* model's content and a schema record that carries a fallback reason; the
\* row that is committed carries that content and that schema record.
C23_ContentAndSchemaIndependent ==
  /\ [][(ReplyParsed /\ isSchemaModuleEnabled(mergedSchemaConfig))
          => /\ (reply.value = "incomplete" /\ reply.schema = ProductSchema)
                  => /\ ensureStructuredContent(generatedContent') = "template"
                     /\ schemaOut'.hasRecord
                     /\ schemaOut'.fallback = "none"
                     /\ schemaOut'.payloadKeys = {"Product"}
             /\ (reply.value = "valid"
                 /\ reply.schema \in {MissingSchema, InvalidSchema, EmptySchema})
                  => /\ ensureStructuredContent(generatedContent') = "model"
                     /\ schemaOut'.hasRecord
                     /\ schemaOut'.types = {}
                     /\ schemaOut'.fallback \in SchemaFallbackReasons]_vars
  /\ []((wpc = "write_completed" /\ Len(rows) = txRowsBefore + 1)
          => /\ rows[Len(rows)].content = ensureStructuredContent(generatedContent)
             /\ rows[Len(rows)].schema_payload = schemaOut
             /\ rows[Len(rows)].schemaTypes = toSchemaTypeArray(schemaOut.types))

\* C23 witness: a committed row with the template content and the model's
\* Product payload
C23_Witness ==
  /\ wpc = "write_completed" /\ Len(rows) = txRowsBefore + 1
  /\ generatedContent = "incomplete" /\ rawSchema = ProductSchema
  /\ rows[Len(rows)].content = "template"
  /\ rows[Len(rows)].schema_payload.payloadKeys = {"Product"}

----------------------------------------------------------------------------
(* PUT /api/rules/:id (routes/content.js 265-312, validation.js 150-158),  *)
(* for the authenticated user "user".  A JSON object is modelled by the    *)
(* set of its keys; a body field is given or not (undefined).              *)

\* no generation job exists and no schema computation runs
NoGeneration ==
  /\ spc = "job"
  /\ ruleCfg = NoLayer /\ jobCfg = NoLayer /\ overrideCfg = NoLayer
  /\ mergedSchemaConfig = EmptyConfig
  /\ rawSchema = UnsetRawSchema
  /\ schemaOut = UnsetSchemaOut
  /\ schemaTypeArray = NullTypeArray
  /\ NoJob

\* the JSONB columns the handler sets, under the names of their body fields
\* but for schema_config, whose body field is schemaConfig
SettingsColumns ==
  {"source_settings", "style_settings", "seo_settings", "media_settings",
   "ranking_settings", "schema_config"}

RuleColumns == {"rule_name"} \cup SettingsColumns

NullColumn == [isNull |-> TRUE, keys |-> {}]
JsonColumn(keys) == [isNull |-> FALSE, keys |-> keys]

NotGiven == [given |-> FALSE, keys |-> {}]
Given(keys) == [given |-> TRUE, keys |-> keys]

\* the stored rule of a user: rule_name is 'old' ({"old"}); ranking_settings
\* and schema_config are null or objects
StoredRules(owner) ==
  { [c \in RuleColumns \cup {"user_id"} |->
       CASE c = "user_id"          -> JsonColumn({owner})
         [] c = "rule_name"        -> JsonColumn({"old"})
         [] c = "ranking_settings" -> ranking
         [] c = "schema_config"    -> schema
         [] OTHER                  -> JsonColumn({"a"})] :
      ranking \in {NullColumn, JsonColumn({"a"})},
      schema \in {NullColumn, JsonColumn({"enabled", "enabledTypes", "schemaTemplates"})} }

\* rule 1 is the caller's, rule 2 is another user's, no rule has id 3
RuleIds == {1, 2, 3}

RuleTables ==
  { <<own, foreign>> : own \in StoredRules("user"),
                       foreign \in {CHOOSE r \in StoredRules("other") : TRUE} }

\* request bodies: rule_name absent, 'new' or '' ({}), each settings field
\* absent or an object, schemaConfig absent, an object with other keys than
\* the stored one, or {}
RuleBodies ==
  { [c \in RuleColumns |->
       CASE c = "rule_name"     -> name
         [] c = "schema_config" -> schema
         [] c \in given         -> Given({"b"})
         [] OTHER               -> NotGiven] :
      name \in {NotGiven, Given({"new"}), Given({})},
      schema \in {NotGiven, Given({"enabledTypes", "customFields"}), Given({})},
      given \in SUBSET (SettingsColumns \ {"schema_config"}) }

\* validation.js 150-158: rule_name is a string of at least one character
ruleValidationPasses(body) ==
  body["rule_name"].given => body["rule_name"].keys # {}

\* a wrong update that merges a given object into the stored one
coalesceMergesKeys(param, column) ==
  IF param.given THEN JsonColumn(param.keys \cup column.keys) ELSE column

\* content.js 280-286: COALESCE($n, column); undefined is sent as NULL
coalesce(param, column) ==
  IF param.given THEN JsonColumn(param.keys) ELSE column

\* content.js 278-288: the rows after the UPDATE
updatedRules(table, id, userId, body) ==
  [i \in DOMAIN table |->
     IF i = id /\ table[i]["user_id"] = JsonColumn({userId})
     THEN [c \in DOMAIN table[i] |->
             IF c \in RuleColumns THEN coalesce(body[c], table[i][c]) ELSE table[i][c]]
     ELSE table[i]]

\* content.js 287: the rows WHERE id = $8 AND user_id = $9 matches
matchesRule(table, id, userId) ==
  id \in DOMAIN table /\ table[id]["user_id"] = JsonColumn({userId})

InitRules ==
  /\ NoGeneration
  /\ NoKeywordRequests /\ NoPoll
  /\ rulesTable \in RuleTables
  /\ rulesBefore = rulesTable
  /\ rulePc = "validate"
  /\ ruleParamId \in RuleIds
  /\ ruleBody \in RuleBodies
  /\ ruleStatus = 0

RuleFrame ==
  UNCHANGED <<schemaVars, apiVars, queueVars, aiConfigured, attemptVars, txVars, rows,
              kbInputs, kbLocals, req, ruleLookup, imgInputs, imgLocals,
              cacheVars, pollVars, rulesBefore, ruleParamId, ruleBody>>

\* validation.js 4-9
RuleValidate ==
  /\ rulePc = "validate"
  /\ IF ruleValidationPasses(ruleBody)
     THEN rulePc' = "update" /\ ruleStatus' = ruleStatus
     ELSE rulePc' = "responded" /\ ruleStatus' = 400
  /\ UNCHANGED rulesTable
  /\ RuleFrame

\* content.js 276-307: withTransaction resolved: the UPDATE is committed and
\* the row it returned, if any, is answered
RuleUpdate ==
  /\ rulePc = "update"
  /\ rulesTable' = updatedRules(rulesTable, ruleParamId, "user", ruleBody)
  /\ ruleStatus' = IF matchesRule(rulesTable, ruleParamId, "user") THEN 200 ELSE 404
  /\ rulePc' = "responded"
  /\ RuleFrame

\* content.js 308-311: withTransaction threw: nothing is committed
RuleUpdateFails ==
  /\ rulePc = "update"
  /\ ruleStatus' = 500
  /\ rulePc' = "responded"
  /\ UNCHANGED rulesTable
  /\ RuleFrame

NextRules == RuleValidate \/ RuleUpdate \/ RuleUpdateFails

SpecRules == InitRules /\ [][NextRules]_vars

\* C21: an update by the owner sets exactly the columns whose field the body
\* gives, each to the given value as a whole, and leaves the other columns
\* and the other rows as they were; for an id that is not a rule of the
\* caller no row changes and the answer is 404.
C21_UpdateReplacesGivenFields ==
  rulePc = "responded"
    => /\ ruleStatus = 200
            => /\ matchesRule(rulesBefore, ruleParamId, "user")
               /\ \A c \in RuleColumns :
                    rulesTable[ruleParamId][c] =
                      IF ruleBody[c].given THEN JsonColumn(ruleBody[c].keys)
                      ELSE rulesBefore[ruleParamId][c]
               /\ rulesTable[ruleParamId]["user_id"] = rulesBefore[ruleParamId]["user_id"]
               /\ \A i \in DOMAIN rulesTable :
                    i # ruleParamId => rulesTable[i] = rulesBefore[i]
       /\ ruleStatus # 200 => rulesTable = rulesBefore
       /\ (~matchesRule(rulesBefore, ruleParamId, "user") /\ ruleStatus \notin {400, 500})
            => ruleStatus = 404

\* C21 witness: the owner's update gave schemaConfig alone, with other keys
\* than the stored schema_config, and the stored one is the given one
C21_Witness ==
  /\ rulePc = "responded" /\ ruleStatus = 200
  /\ rulesBefore[1]["schema_config"] =
       JsonColumn({"enabled", "enabledTypes", "schemaTemplates"})
  /\ ruleBody["schema_config"] = Given({"enabledTypes", "customFields"})
  /\ \A c \in RuleColumns \ {"schema_config"} : ~ruleBody[c].given
  /\ rulesTable[1]["schema_config"] = JsonColumn({"enabledTypes", "customFields"})
  /\ rulesTable[1]["rule_name"] = JsonColumn({"old"})

----------------------------------------------------------------------------
(* GET /api/keywords and its cache (part_006 29-36, 648-727; simpleCache.js *)
(* 9-45), with the keyword mutations of the same user (part_006 850, 875,  *)
(* 895, 924, 990, 1064, 1209, 1239, 1381).  The user's keywords are        *)
(* modelled by a version number that every mutation increases, a page by   *)
(* the version it shows; the list requests use one cache key, and a        *)
(* page of fetchKeywordCollections is read in one step.                    *)

\* mutations of the user's keywords
MaxMutations == 2

\* concurrent list requests of the user
Listers == {1, 2}

IdleLister == [pc |-> "idle", arrivedAfter |-> 0, seen |-> 0, status |-> 0, answer |-> 0]

InitCache ==
  /\ NoGeneration
  /\ NoRuleRequest /\ NoPoll
  /\ kwDb = 0
  /\ kwCache = NoCacheEntry
  /\ kwMutPc = "idle"
  /\ kwReturned = 0
  /\ kwList = [l \in Listers |-> IdleLister]

CacheFrame ==
  UNCHANGED <<schemaVars, apiVars, queueVars, aiConfigured, attemptVars, txVars, rows,
              kbInputs, kbLocals, req, ruleLookup, imgInputs, imgLocals,
              rulesVars, pollVars>>

\* part_006 648-671: the request arrives; a cached page is answered
ListArrive(l) ==
  /\ kwList[l].pc = "idle"
  /\ kwList' = [kwList EXCEPT ![l] =
       IF kwCache # NoCacheEntry
       THEN [IdleLister EXCEPT !.pc = "responded", !.arrivedAfter = kwReturned,
                               !.status = 200, !.answer = kwCache]
       ELSE [IdleLister EXCEPT !.pc = "query", !.arrivedAfter = kwReturned]]
  /\ UNCHANGED <<kwDb, kwCache, kwMutPc, kwReturned>>
  /\ CacheFrame

\* part_006 673-680: the queries of fetchKeywordCollections read the database
ListQuery(l) ==
  /\ kwList[l].pc = "query"
  /\ kwList' = [kwList EXCEPT ![l].pc = "store", ![l].seen = kwDb]
  /\ UNCHANGED <<kwDb, kwCache, kwMutPc, kwReturned>>
  /\ CacheFrame

\* part_006 673, 724-726: a query rejected
ListQueryFails(l) ==
  /\ kwList[l].pc = "query"
  /\ kwList' = [kwList EXCEPT ![l].pc = "responded", ![l].status = 500]
  /\ UNCHANGED <<kwDb, kwCache, kwMutPc, kwReturned>>
  /\ CacheFrame

\* part_006 715-723: the await resolved: the page is cached and answered
ListStore(l) ==
  /\ kwList[l].pc = "store"
  /\ kwCache' = kwList[l].seen
  /\ kwList' = [kwList EXCEPT ![l].pc = "responded", ![l].status = 200,
                              ![l].answer = kwList[l].seen]
  /\ UNCHANGED <<kwDb, kwMutPc, kwReturned>>
  /\ CacheFrame

\* the user asks for the list again
ListAgain(l) ==
  /\ kwList[l].pc = "responded"
  /\ kwList' = [kwList EXCEPT ![l] = IdleLister]
  /\ UNCHANGED <<kwDb, kwCache, kwMutPc, kwReturned>>
  /\ CacheFrame

\* part_006 870-873 (and 805-849, 886-889, 914-923, 974-989, 1052-1057,
\* 1165-1207, 1229-1236, 1370-1378): the statements of a mutation resolved
MutWrite ==
  /\ kwMutPc = "idle"
  /\ kwDb < MaxMutations
  /\ kwDb' = kwDb + 1
  /\ kwMutPc' = "written"
  /\ UNCHANGED <<kwCache, kwReturned, kwList>>
  /\ CacheFrame

\* part_006 875-876 (and 850, 895, 924, 990, 1064, 1209, 1239, 1381):
\* invalidateKeywordCache, then the answer
MutReturn ==
  /\ kwMutPc = "written"
  /\ kwCache' = NoCacheEntry
  /\ kwReturned' = kwReturned + 1
  /\ kwMutPc' = "idle"
  /\ UNCHANGED <<kwDb, kwList>>
  /\ CacheFrame

\* simpleCache.js 16-20: the entry is older than ttlMs when it is read
CacheExpire ==
  /\ kwCache # NoCacheEntry
  /\ kwCache' = NoCacheEntry
  /\ UNCHANGED <<kwDb, kwMutPc, kwReturned, kwList>>
  /\ CacheFrame

NextCache ==
  \/ \E l \in Listers : \/ ListArrive(l) \/ ListQuery(l) \/ ListQueryFails(l)
                        \/ ListStore(l) \/ ListAgain(l)
  \/ MutWrite \/ MutReturn \/ CacheExpire

SpecCache == InitCache /\ [][NextCache]_vars

\* C22 (as stated): a list request that arrives after a mutation of the
\* user has returned is answered with a page that shows that mutation, also
\* when another list request was in flight while the mutation ran.
C22_ListReflectsReturnedMutations ==
  \A l \in Listers :
    (kwList[l].pc = "responded" /\ kwList[l].status = 200)
      => kwList[l].answer >= kwList[l].arrivedAfter

----------------------------------------------------------------------------
(* GET /api/content/jobs/:id (routes/content.js 69-93) over the Redis      *)
(* queue, and POST /generate and GET /jobs/:id over the in-memory queue of *)
(* queue.js 77-97                                                         *)

ReturnedValue == [present |-> TRUE, fallbackReason |-> "", row |-> 1]

\* a job as the queue can hold it when it is polled
Snapshot(state, record, value, made, taken, reason) ==
  [jobState |-> state, progress |-> record, returnvalue |-> value,
   attemptsMade |-> made, deliveries |-> taken, failedReason |-> reason]

JobSnapshots ==
  { Snapshot("waiting", NoProgress, NoReturnValue, 0, 0, ""),
    Snapshot("waiting", ProgressRecord("queued", 10, ""), NoReturnValue, 0, 0, ""),
    Snapshot("active", ProgressRecord("initializing", 5, ""), NoReturnValue, 0, 1, ""),
    Snapshot("active", ProgressRecord("persisting", 80, ""), NoReturnValue, 0, 1, ""),
    Snapshot("active", ProgressRecord("completed", 100, ""), NoReturnValue, 0, 1, ""),
    Snapshot("completed", ProgressRecord("completed", 100, ""), ReturnedValue, 0, 1, ""),
    Snapshot("completed", ProgressRecord("queued", 10, ""), ReturnedValue, 0, 1, ""),
    Snapshot("waiting", ProgressRecord("failed", 100, "query failed"), NoReturnValue,
             1, 1, "query failed"),
    Snapshot("failed", ProgressRecord("failed", 100, "query failed"), NoReturnValue,
             Attempts, Attempts, "query failed") }

\* no processor runs
NoProcessor ==
  /\ stalledCount = 0 /\ progressLog = <<>>
  /\ wpc = "idle"
  /\ FreshAttempt
  /\ FreshTx
  /\ rows = <<>>
  /\ NoRetrieval
  /\ NoImages

InitPoll ==
  /\ spc = "job"
  /\ ruleCfg = NoLayer /\ jobCfg = NoLayer /\ overrideCfg = NoLayer
  /\ mergedSchemaConfig = EmptyConfig
  /\ rawSchema = UnsetRawSchema
  /\ schemaOut = UnsetSchemaOut
  /\ schemaTypeArray = NullTypeArray
  /\ aiConfigured = FALSE /\ ruleLookup = "found" /\ req = PlainRequest
  /\ NoRuleRequest /\ NoKeywordRequests
  /\ NoProcessor
  /\ pollCaller \in {"user", "other"}
  /\ pollPc = "get_job" /\ pollStatus = 0 /\ pollBody = NoPollBody
  /\ \/ /\ queueKind = "bullmq"
        /\ apiPc = "responded" /\ apiStatus = 202
        /\ \/ /\ jobOwner \in {"user", "other", "nodata"}
              /\ \E job \in JobSnapshots :
                   /\ jobState = job.jobState
                   /\ progress = job.progress
                   /\ returnvalue = job.returnvalue
                   /\ attemptsMade = job.attemptsMade
                   /\ deliveries = job.deliveries
                   /\ failedReason = job.failedReason
           \/ /\ jobOwner = "nojob"
              /\ jobState = "none" /\ progress = NoProgress
              /\ returnvalue = NoReturnValue
              /\ attemptsMade = 0 /\ deliveries = 0 /\ failedReason = ""
     \/ /\ queueKind = "memory"
        /\ apiPc = "request" /\ apiStatus = 0
        /\ jobOwner = "nojob"
        /\ jobState = "none" /\ progress = NoProgress
        /\ returnvalue = NoReturnValue
        /\ attemptsMade = 0 /\ deliveries = 0 /\ failedReason = ""

PollFrame ==
  UNCHANGED <<schemaVars, queueVars, aiConfigured, attemptVars, txVars, rows,
              kbInputs, kbLocals, req, ruleLookup, imgInputs, imgLocals,
              rulesVars, cacheVars, queueKind, jobOwner, pollCaller>>

PollAnswer(status, body) ==
  /\ pollPc' = "responded"
  /\ pollStatus' = status
  /\ pollBody' = body

NotFoundBody == [NoPollBody EXCEPT !.message = "Job not found."]

\* a wrong ownership test that lets every user see a job
jobVisibleToAnyUser(owner, caller) == owner \in {"user", "other"}

\* content.js 75: !job || !job.data || job.data.userId !== req.user.id
jobVisibleTo(owner, caller) == owner \in {"user", "other"} /\ owner = caller

\* content.js 73-77: getJob resolved
PollGetJob ==
  /\ queueKind = "bullmq"
  /\ pollPc = "get_job"
  /\ IF jobVisibleTo(jobOwner, pollCaller)
     THEN /\ pollPc' = "get_state"
          /\ UNCHANGED <<pollStatus, pollBody>>
     ELSE PollAnswer(404, NotFoundBody)
  /\ UNCHANGED apiVars
  /\ PollFrame

\* content.js 79-89: getState resolved; result is job.returnvalue for a
\* completed job and undefined otherwise
PollGetState ==
  /\ queueKind = "bullmq"
  /\ pollPc = "get_state"
  /\ PollAnswer(200, [message |-> "", state |-> jobState, stage |-> progress.stage,
                      hasResult |-> (jobState = "completed")])
  /\ UNCHANGED apiVars
  /\ PollFrame

\* content.js 73, 79, 90-92: getJob or getState rejected
PollFails ==
  /\ queueKind = "bullmq"
  /\ pollPc \in {"get_job", "get_state"}
  /\ PollAnswer(500, [NoPollBody EXCEPT !.message = "Failed to fetch job status."])
  /\ UNCHANGED apiVars
  /\ PollFrame

\* content.js 73, 90-92 with queue.js 80-89: the in-memory queue has no
\* getJob, the call throws a TypeError inside the try block
PollMemoryQueue ==
  /\ queueKind = "memory"
  /\ pollPc = "get_job"
  /\ PollAnswer(500, [NoPollBody EXCEPT !.message = "Failed to fetch job status."])
  /\ UNCHANGED apiVars
  /\ PollFrame

\* content.js 31-44 with queue.js 81-84: add resolves with {id} and keeps
\* nothing
MemoryAddJob ==
  /\ queueKind = "memory"
  /\ apiPc = "request"
  /\ apiPc' = "added"
  /\ UNCHANGED <<apiStatus, pollPc, pollStatus, pollBody>>
  /\ PollFrame

\* content.js 45, 48-50 with queue.js 83: the job object has no
\* updateProgress, the call throws a TypeError inside the try block
MemoryWriteQueued ==
  /\ queueKind = "memory"
  /\ apiPc = "added"
  /\ apiPc' = "responded"
  /\ apiStatus' = 500
  /\ UNCHANGED <<pollPc, pollStatus, pollBody>>
  /\ PollFrame

NextPoll ==
  \/ PollGetJob \/ PollGetState \/ PollFails
  \/ PollMemoryQueue \/ MemoryAddJob \/ MemoryWriteQueued

SpecPoll == InitPoll /\ [][NextPoll]_vars

\* C29: a caller who is not the job's user gets the answer given for a job
\* that does not exist, 404 with no state, progress or result; and a result
\* is answered only with state completed.
C29_JobHiddenFromOtherUsers ==
  pollPc = "responded"
    => /\ (queueKind = "bullmq" /\ jobOwner # pollCaller /\ pollStatus # 500)
            => (pollStatus = 404 /\ pollBody = NotFoundBody)
       /\ jobOwner # pollCaller
            => (pollBody.state = "" /\ pollBody.stage = "" /\ ~pollBody.hasResult)
       /\ pollBody.hasResult => (pollStatus = 200 /\ pollBody.state = "completed")

\* C29 witness: another user asked for a completed job and got the 404 of a
\* job that does not exist
C29_Witness ==
  /\ pollPc = "responded"
  /\ queueKind = "bullmq"
  /\ jobOwner = "user" /\ pollCaller = "other"
  /\ jobState = "completed" /\ returnvalue.present
  /\ pollStatus = 404 /\ pollBody = NotFoundBody

\* C30 (as stated): over the in-memory queue POST /api/content/generate with
\* a valid body answers 202 with progress queued(10), and GET
\* /api/content/jobs/:id answers without a server error.
C30_MemoryQueueAccepts ==
  queueKind = "memory"
    => /\ apiPc = "responded" => apiStatus = 202
       /\ pollPc = "responded" => pollStatus < 500

====
